---- MODULE Spec2Model ----
(***************************************************************************)
(* The scheduling engine of the project-management assistant:              *)
(*   - plain PERT/CPM               backend/app/CPA/cpa_core.py            *)
(*   - PERT + RCPSP                 backend/tools/cpa/engine/cpa.py        *)
(*   - calendar schedulers          .../sprint_timeline.py,                *)
(*                                  .../sprint_dependency.py               *)
(*   - ETA range estimator          .../sprint_eta.py                      *)
(*   - callers of the estimator     backend/tools/jira/cpa_tools.py,       *)
(*                                  backend/main.py                        *)
(*   - cache of sprint issues       backend/tools/cpa/engine/jira.py       *)
(*                                                                         *)
(* Ids are sequences of one-character strings, so that the numeric-suffix  *)
(* parse and the string comparison of the code are computed, not assumed.  *)
(* Durations and times are integers (the code uses floats; every duration  *)
(* drawn here is exactly representable, so + - max min are exact).         *)
(* Dates are day numbers; day 0 is a Monday, weekday(d) = d % 7.           *)
(***************************************************************************)
EXTENDS Integers, Sequences, FiniteSets, TLC

VARIABLES
    project,      \* ProjectModel.tasks handed to the CPA engine (a list of TaskModel)
    cpa_plain,    \* last result of run_cpa_calc(project)
    cpa_rcpsp,    \* last result of _run_pert_rcpsp_calc(project)
    cpa_pc,       \* "idle", "loaded" (a project is built), else the entry point that returned
    adv_in,       \* arguments of one call of _advance_working_days
    adv_out,      \* what that call returned
    issues,       \* the sprint's raw issue records, as _cached_current_sprint_issues returns them
    cal,          \* calendar parameters of a request: start_on, working_days, holidays
    today,        \* datetime.utcnow().date()
    timeline,     \* last result of current_sprint_cpa_timeline
    dep_schedule, \* last result of schedule_current_sprint_with_dependencies
    cal_pc,       \* "idle", or "loaded": a sprint is fetched and requests are served
    eta_req,      \* arguments of one request compute_eta_range_for_issue_current_sprint
    eta,          \* what that request returned
    query_key,    \* the issue_key argument of a single-issue calendar query
    expected,     \* what expected_completion_for_issue_in_current_sprint returned
    estimate,     \* what estimate_issue_completion_in_current_sprint returned
    answer,       \* what answer_when_issue_complete_range returned
    endpoint,     \* the response of GET /jira/issue-eta-graph
    eta_pc,       \* position of an ETA request followed step by step, "idle" if none is
    eta_graph,    \* the graph object built by that request (its local `graph`)
    pess_st,      \* the state of its loop `while ready`
    eta_prev,     \* what the request before it returned
    jira_cache,   \* _JIRA_CACHE: project key -> (timestamp, issues)
    now_ts,       \* datetime.utcnow().timestamp()
    jira_up,      \* what _jira_search_current_sprint_issues would answer, per project
    cache_ret,    \* outcome of the last call of _cached_current_sprint_issues
    calls,        \* number of calls of _cached_current_sprint_issues so far
    rm_issues,    \* the local `issues` of a request sprint_completion_if_issue_removed
    removal       \* what that request returned

cpa_vars == <<project, cpa_plain, cpa_rcpsp, cpa_pc>>

adv_vars == <<adv_in, adv_out>>

cal_vars == <<issues, cal, today, timeline, dep_schedule, cal_pc>>

eta_vars == <<eta_req, eta>>

svc_vars == <<query_key, expected, estimate, answer, endpoint>>

step_vars == <<eta_pc, eta_graph, pess_st, eta_prev>>

jira_vars == <<jira_cache, now_ts, jira_up, cache_ret, calls>>

rm_vars == <<rm_issues, removal>>

ext_vars == <<step_vars, jira_vars, rm_vars>>

vars == <<cpa_vars, adv_vars, cal_vars, eta_vars, svc_vars, ext_vars>>

----------------------------------------------------------------------------
(* Bounds of the explored inputs *)

MaxDur == 1       \* estimate_days of a task ranges over 0..MaxDur
MaxDeps == 3      \* total number of dependency entries of a project
MaxDays == 2      \* story points of an issue range over 2..MaxDays (or are missing)
MaxAdvance == 3   \* _advance_working_days is called with days in -1..MaxAdvance
MaxLinks == 2     \* total number of issue links of a sprint given to the calendar
MaxEtaLinks == 3  \* total number of issue links of a sprint given to the ETA estimator

----------------------------------------------------------------------------
(* Generic helpers *)

None == "None"

SeqToSet(s) == {s[i] : i \in 1..Len(s)}

Contains(s, x) == \E i \in 1..Len(s) : s[i] = x

MaxOf(S) == CHOOSE x \in S : \A y \in S : y <= x

MinOf(S) == CHOOSE x \in S : \A y \in S : x <= y

Max2(a, b) == IF a >= b THEN a ELSE b

Min2(a, b) == IF a <= b THEN a ELSE b

\* [x for x in s if x in S]
Filter(s, S) == SelectSeq(s, LAMBDA x : x \in S)

\* number of occurrences of x in the list s
Count(s, x) == Len(SelectSeq(s, LAMBDA y : y = x))

Reverse(s) == [i \in 1..Len(s) |-> s[Len(s) + 1 - i]]

RECURSIVE SumSeq(_)
SumSeq(s) == IF s = <<>> THEN 0 ELSE Head(s) + SumSeq(Tail(s))

\* all orderings of the finite set S
Orderings(S) ==
    {s \in [1..Cardinality(S) -> S] : \A i, j \in 1..Cardinality(S) : i # j => s[i] # s[j]}

----------------------------------------------------------------------------
(* Issue keys as character strings *)

Digits == {"0", "1", "2", "3", "4", "5", "6", "7", "8", "9"}

\* ord(c) of the characters used in keys
Ord(c) ==
    CASE c = "-" -> 45
      [] c = "0" -> 48 [] c = "1" -> 49 [] c = "2" -> 50 [] c = "3" -> 51
      [] c = "4" -> 52 [] c = "5" -> 53 [] c = "6" -> 54 [] c = "7" -> 55
      [] c = "8" -> 56 [] c = "9" -> 57
      [] c = "T" -> 84 [] c = "U" -> 85 [] c = "V" -> 86

\* Python's str < str: lexicographic by code point, a proper prefix is smaller
RECURSIVE StrLess(_, _)
StrLess(a, b) ==
    IF b = <<>> THEN FALSE
    ELSE IF a = <<>> THEN TRUE
    ELSE IF Ord(Head(a)) # Ord(Head(b)) THEN Ord(Head(a)) < Ord(Head(b))
    ELSE StrLess(Tail(a), Tail(b))

\* int(s) for a string of decimal digits
RECURSIVE DecimalValue(_)
DecimalValue(s) ==
    IF s = <<>> THEN 0
    ELSE 10 * DecimalValue(SubSeq(s, 1, Len(s) - 1)) + (Ord(s[Len(s)]) - 48)

\* k.rsplit('-', 1)[1]: what follows the last '-'
RsplitDashTail(k) ==
    LET last == MaxOf({i \in 1..Len(k) : k[i] = "-"})
    IN  SubSeq(k, last + 1, Len(k))

\* _issue_key_number: 0 without '-', 0 when int() raises, else the numeric suffix
IssueKeyNumber(k) ==
    IF k = <<>> \/ ~Contains(k, "-") THEN 0
    ELSE LET tail == RsplitDashTail(k)
         IN  IF tail # <<>> /\ \A i \in 1..Len(tail) : tail[i] \in Digits
             THEN DecimalValue(tail)
             ELSE 0

\* the sort key (_issue_key_number(x), x) compared as Python compares tuples
KeyLess(a, b) ==
    \/ IssueKeyNumber(a) < IssueKeyNumber(b)
    \/ IssueKeyNumber(a) = IssueKeyNumber(b) /\ StrLess(a, b)

\* sorted(...) of distinct strings
SortedStr(S) ==
    CHOOSE s \in Orderings(S) : \A i, j \in 1..Cardinality(S) : i < j => StrLess(s[i], s[j])

\* sorted(...) of distinct keys by (_issue_key_number(k), k)
SortedKey(S) ==
    CHOOSE s \in Orderings(S) : \A i, j \in 1..Cardinality(S) : i < j => KeyLess(s[i], s[j])

\* ready.sort(key=lambda x: (_issue_key_number(x), x)) on a list of distinct keys
SortByIssueKey(s) == SortedKey(SeqToSet(s))

\* The task ids of the explored projects.  In (number, key) order: V, T-2, T-10;
\* in string order: T-10, T-2, V.
Ids == { <<"T", "-", "1", "0">>, <<"T", "-", "2">>, <<"V">> }

Assignees == {None, "X"}

----------------------------------------------------------------------------
(* Plain PERT/CPM: backend/app/CPA/cpa_core.py *)

NodeIds(tasks) == [i \in 1..Len(tasks) |-> tasks[i].id]

TaskById(tasks, u) == tasks[CHOOSE i \in 1..Len(tasks) : tasks[i].id = u]

\* succ[d] as the loops of _build_graph leave it: tasks in list order, t.id appended
\* once for every occurrence of d in t.dependencies
RECURSIVE SuccList(_, _, _)
SuccList(tasks, d, i) ==
    IF i > Len(tasks) THEN <<>>
    ELSE [j \in 1..Count(tasks[i].dependencies, d) |-> tasks[i].id]
         \o SuccList(tasks, d, i + 1)

\* dur[t.id] = max(0.0, float(t.estimate_days or 0.0))
ClampDuration(estimate_days) == Max2(0, estimate_days)

build_graph(tasks) ==
    LET ids == SeqToSet(NodeIds(tasks))
    IN  [nodes |-> NodeIds(tasks),
         succ  |-> [d \in ids |-> SuccList(tasks, d, 1)],
         dur   |-> [u \in ids |-> ClampDuration(TaskById(tasks, u).estimate_days)]]

\* indeg after the first loop of _topo_sort: one per edge entry u -> v, u in nodes
InDegree(nodes, edges, v) ==
    SumSeq([i \in 1..Len(nodes) |-> Count(edges[nodes[i]], v)])

\* for v in edges.get(u, []): indeg[v] -= 1; if indeg[v] == 0: q.append(v)
RECURSIVE KahnRelax(_, _, _, _)
KahnRelax(vs, i, indeg, q) ==
    IF i > Len(vs) THEN [indeg |-> indeg, q |-> q]
    ELSE LET v == vs[i]
         IN  IF v \in DOMAIN indeg
             THEN KahnRelax(vs, i + 1, [indeg EXCEPT ![v] = @ - 1],
                            IF indeg[v] - 1 = 0 THEN Append(q, v) ELSE q)
             ELSE KahnRelax(vs, i + 1, indeg, q)

\* while q: u = q.popleft(); order.append(u); relax the successors of u
RECURSIVE KahnLoop(_, _, _, _)
KahnLoop(q, order, indeg, edges) ==
    IF q = <<>> THEN order
    ELSE LET u == Head(q)
             r == KahnRelax(edges[u], 1, indeg, Tail(q))
         IN  KahnLoop(r.q, Append(order, u), r.indeg, edges)

KahnOrder(nodes, edges) ==
    LET indeg == [v \in SeqToSet(nodes) |-> InDegree(nodes, edges, v)]
        q0 == SelectSeq(nodes, LAMBDA u : indeg[u] = 0)
    IN  KahnLoop(q0, <<>>, indeg, edges)

\* a faulty topo_sort: Kahn's order is returned back to front
topo_sort_reversed(nodes, edges) ==
    LET order == KahnOrder(nodes, edges)
    IN  IF Len(order) # Len(nodes) THEN nodes ELSE Reverse(order)

\* a faulty topo_sort: no fall-back, the partial order is returned
topo_sort_no_fallback(nodes, edges) == KahnOrder(nodes, edges)

\* a faulty topo_sort: the input order is returned unsorted
topo_sort_input_order(nodes, edges) == nodes

topo_sort(nodes, edges) ==
    LET order == KahnOrder(nodes, edges)
    IN  IF Len(order) # Len(nodes) THEN nodes ELSE order

\* preds as run_cpa_calc derives it from succ: for u in nodes, for v in succ[u]
RECURSIVE PredList(_, _, _, _)
PredList(nodes, succ, v, i) ==
    IF i > Len(nodes) THEN <<>>
    ELSE [j \in 1..Count(succ[nodes[i]], v) |-> nodes[i]] \o PredList(nodes, succ, v, i + 1)

\* a faulty forward pass: the earliest, not the latest, predecessor finish is taken
RECURSIVE ForwardPassMin(_, _, _, _, _, _)
ForwardPassMin(order, i, ES, EF, preds, dur) ==
    IF i > Len(order) THEN [ES |-> ES, EF |-> EF]
    ELSE LET u == order[i]
             es == IF preds[u] # <<>>
                   THEN MinOf({EF[p] : p \in SeqToSet(preds[u])})
                   ELSE ES[u]
         IN  ForwardPassMin(order, i + 1, [ES EXCEPT ![u] = es],
                            [EF EXCEPT ![u] = es + dur[u]], preds, dur)

\* for u in order: ES[u] = max(EF[p] for p in preds[u]) if preds[u]; EF[u] = ES[u] + dur[u]
RECURSIVE ForwardPass(_, _, _, _, _, _)
ForwardPass(order, i, ES, EF, preds, dur) ==
    IF i > Len(order) THEN [ES |-> ES, EF |-> EF]
    ELSE LET u == order[i]
             es == IF preds[u] # <<>>
                   THEN MaxOf({EF[p] : p \in SeqToSet(preds[u])})
                   ELSE ES[u]
         IN  ForwardPass(order, i + 1, [ES EXCEPT ![u] = es],
                         [EF EXCEPT ![u] = es + dur[u]], preds, dur)

\* for u in reversed(order): if succ[u]: LF[u] = min(LS[v] ...); LS[u] = LF[u] - dur[u]
RECURSIVE BackwardPass(_, _, _, _, _, _)
BackwardPass(rorder, i, LS, LF, succ, dur) ==
    IF i > Len(rorder) THEN [LS |-> LS, LF |-> LF]
    ELSE LET u == rorder[i]
         IN  IF succ[u] # <<>>
             THEN LET lf == MinOf({LS[v] : v \in SeqToSet(succ[u])})
                  IN  BackwardPass(rorder, i + 1, [LS EXCEPT ![u] = lf - dur[u]],
                                   [LF EXCEPT ![u] = lf], succ, dur)
             ELSE BackwardPass(rorder, i + 1, LS, LF, succ, dur)

\* a faulty SlackOf: the difference is not clamped at 0
SlackUnclamped(ls, es) == ls - es

\* slack[u] = max(0.0, LS[u] - ES[u])
SlackOf(ls, es) == Max2(0, ls - es)

\* abs(slack[u]) < 1e-9, on exactly representable values
IsZeroSlack(slack) == slack = 0

\* max((EF[u] for u in nodes), default=0.0)
MaxFinish(ids, EF) == IF ids = {} THEN 0 ELSE MaxOf({EF[u] : u \in ids})

\* a faulty CriticalPathOf: the critical set is listed in input order
CriticalPathInputOrder(order, nodes, crit_set) == Filter(nodes, crit_set)

\* critical_path = [u for u in order if u in crit_set]
CriticalPathOf(order, nodes, crit_set) == Filter(order, crit_set)

run_cpa_calc(tasks) ==
    LET g     == build_graph(tasks)
        ids   == SeqToSet(g.nodes)
        order == topo_sort(g.nodes, g.succ)
        preds == [v \in ids |-> PredList(g.nodes, g.succ, v, 1)]
        fw    == ForwardPass(order, 1, [u \in ids |-> 0], [u \in ids |-> g.dur[u]],
                             preds, g.dur)
        pd    == MaxFinish(ids, fw.EF)
        bw    == BackwardPass(Reverse(order), 1, [u \in ids |-> pd - g.dur[u]],
                              [u \in ids |-> pd], g.succ, g.dur)
        slack == [u \in ids |-> SlackOf(bw.LS[u], fw.ES[u])]
        crit  == {u \in ids : IsZeroSlack(slack[u])}
    IN  [project_duration |-> pd,
         tasks |-> [i \in 1..Len(order) |->
                      LET u == order[i]
                      IN  [id |-> u, duration |-> g.dur[u],
                           ES |-> fw.ES[u], EF |-> fw.EF[u],
                           LS |-> bw.LS[u], LF |-> bw.LF[u],
                           slack |-> slack[u], isCritical |-> u \in crit]],
         critical_path |-> CriticalPathOf(order, g.nodes, crit)]

----------------------------------------------------------------------------
(* PERT + RCPSP: backend/tools/cpa/engine/cpa.py *)

cpa_topo_sort(nodes, edges) == topo_sort(nodes, edges)

\* preds[t.id]: the dependencies of t that are tasks of the project, in list order
build_graph_with_assignees(tasks) ==
    LET ids == SeqToSet(NodeIds(tasks))
    IN  [nodes    |-> NodeIds(tasks),
         succ     |-> [d \in ids |-> SuccList(tasks, d, 1)],
         dur      |-> [u \in ids |-> ClampDuration(TaskById(tasks, u).estimate_days)],
         preds    |-> [u \in ids |-> Filter(TaskById(tasks, u).dependencies, ids)],
         assignee |-> [u \in ids |-> TaskById(tasks, u).assignee]]

\* 1) plain PERT: ES0/EF0 forward in topological order
RECURSIVE ForwardPass0(_, _, _, _, _, _)
ForwardPass0(order, i, ES0, EF0, preds, dur) ==
    IF i > Len(order) THEN [ES |-> ES0, EF |-> EF0]
    ELSE LET u == order[i]
             es == IF preds[u] # <<>>
                   THEN MaxOf({EF0[p] : p \in SeqToSet(preds[u])})
                   ELSE ES0[u]
         IN  ForwardPass0(order, i + 1, [ES0 EXCEPT ![u] = es],
                          [EF0 EXCEPT ![u] = es + Max2(0, dur[u])], preds, dur)

\* LF/LS backward over reversed(order), used for LF0/LS0 and to initialise LF/LS
RECURSIVE BackwardPass0(_, _, _, _, _, _)
BackwardPass0(rorder, i, LS, LF, succ, dur) ==
    IF i > Len(rorder) THEN [LS |-> LS, LF |-> LF]
    ELSE LET u == rorder[i]
         IN  IF succ[u] # <<>>
             THEN LET lf == MinOf({LS[v] : v \in SeqToSet(succ[u])})
                  IN  BackwardPass0(rorder, i + 1, [LS EXCEPT ![u] = lf - Max2(0, dur[u])],
                                    [LF EXCEPT ![u] = lf], succ, dur)
             ELSE BackwardPass0(rorder, i + 1, LS, LF, succ, dur)

\* heap entries are tuples (finish_time, node): Python's tuple order
HeapLess(e, f) == e[1] < f[1] \/ (e[1] = f[1] /\ StrLess(e[2], f[2]))

\* a faulty pop: the largest entry
HeapMax(heap) == CHOOSE e \in heap : \A f \in heap : e = f \/ HeapLess(f, e)

\* heapq.heappop: the smallest entry
HeapMin(heap) == CHOOSE e \in heap : \A f \in heap : e = f \/ HeapLess(e, f)

\* a faulty start rule: only the assignee's availability counts
StartTimeResourceOnly(current_time, next_free_user, deps_finish_u) == next_free_user

\* a faulty start rule: the assignee's availability is ignored
StartTimeNoResource(current_time, next_free_user, deps_finish_u) ==
    Max2(current_time, deps_finish_u)

\* start_u = max(current_time, next_free.get(user, 0.0), deps_finish.get(u, 0.0))
StartTime(current_time, next_free_user, deps_finish_u) ==
    Max2(Max2(current_time, next_free_user), deps_finish_u)

\* try_schedule(u, current_time); next_free is keyed by assignee, None included
try_schedule(st, g, u, current_time) ==
    LET user    == g.assignee[u]
        start_u == StartTime(current_time, st.next_free[user], st.deps_finish[u])
        ef      == start_u + Max2(0, g.dur[u])
    IN  [st EXCEPT !.ES[u] = start_u,
                   !.EF[u] = ef,
                   !.next_free[user] = ef,
                   !.heap = @ \cup {<<ef, u>>},
                   !.sched = Append(@, u)]

RECURSIVE ScheduleReady(_, _, _, _)
\* for u in ready: try_schedule(u, 0.0)
ScheduleReady(st, g, ready, i) ==
    IF i > Len(ready) THEN st
    ELSE ScheduleReady(try_schedule(st, g, ready[i], 0), g, ready, i + 1)

\* for v in succ[done]: deps_finish[v] = max(.., ft); indeg[v] -= 1;
\* if indeg[v] == 0: try_schedule(v, current_time)
RECURSIVE RelaxSuccessors(_, _, _, _, _)
RelaxSuccessors(st, g, vs, i, ft) ==
    IF i > Len(vs) THEN st
    ELSE LET v   == vs[i]
             st1 == [st EXCEPT !.deps_finish[v] = Max2(@, ft), !.indeg[v] = @ - 1]
         IN  RelaxSuccessors(IF st1.indeg[v] = 0 THEN try_schedule(st1, g, v, ft) ELSE st1,
                             g, vs, i + 1, ft)

\* while heap: ft, done = heappop(heap); current_time = ft; relax succ[done]
RECURSIVE EventLoop(_, _)
EventLoop(st, g) ==
    IF st.heap = {} THEN st
    ELSE LET top == HeapMin(st.heap)
             st1 == [st EXCEPT !.heap = @ \ {top}, !.pops = Append(@, top)]
         IN  EventLoop(RelaxSuccessors(st1, g, g.succ[top[2]], 1, top[1]), g)

\* a faulty ready order: plain string order of the ids
ReadyByString(ready) == SortedStr(SeqToSet(ready))

\* ready.sort(key=lambda x: (_issue_key_number(x), x))
SortReady(ready) == SortByIssueKey(ready)

\* 2) RCPSP forward pass
RcpspForward(g) ==
    LET ids   == SeqToSet(g.nodes)
        users == {g.assignee[u] : u \in ids}
        indeg == [v \in ids |-> Len(g.preds[v])]
        ready == SortReady(SelectSeq(g.nodes, LAMBDA k : indeg[k] = 0))
        st0   == [ES |-> [u \in ids |-> 0], EF |-> [u \in ids |-> 0],
                  next_free |-> [a \in users |-> 0],
                  deps_finish |-> [u \in ids |-> 0],
                  indeg |-> indeg, heap |-> {}, pops |-> <<>>, sched |-> <<>>]
    IN  EventLoop(ScheduleReady(st0, g, ready, 1), g)

\* the number of convergence passes of the backward resource adjustment
ResourcePasses == 3

\* by_user.setdefault(assignee.get(u), []): the assignees in order of first appearance
RECURSIVE UsersInOrder(_, _, _, _)
UsersInOrder(nodes, assignee, i, acc) ==
    IF i > Len(nodes) THEN acc
    ELSE UsersInOrder(nodes, assignee, i + 1,
                      IF Contains(acc, assignee[nodes[i]]) THEN acc
                      ELSE Append(acc, assignee[nodes[i]]))

\* the sort key (LF, EF) compared as Python compares tuples
LfEfLess(LF, EF, a, b) == LF[a] < LF[b] \/ (LF[a] = LF[b] /\ EF[a] < EF[b])

\* sorted(tasks, key=(LF, EF), reverse=True): descending and stable, so equal keys
\* keep their original relative order
RECURSIVE SortedLfDesc(_, _, _, _, _)
SortedLfDesc(tasks, i, acc, LF, EF) ==
    IF i > Len(tasks) THEN acc
    ELSE LET x   == tasks[i]
             pos == LET smaller == {j \in 1..Len(acc) : LfEfLess(LF, EF, acc[j], x)}
                    IN  IF smaller = {} THEN Len(acc) + 1 ELSE MinOf(smaller)
         IN  SortedLfDesc(tasks, i + 1,
                          SubSeq(acc, 1, pos - 1) \o <<x>> \o SubSeq(acc, pos, Len(acc)),
                          LF, EF)

\* a faulty adjustment: the latest-free time of an assignee is never lowered
TightenUserKeepFree(tasks_sorted, i, latest_free, LS, LF, dur) == [LS |-> LS, LF |-> LF]

\* for u in tasks_sorted: tighten LF[u] to min(latest_free, LF[u]); latest_free = LS[u]
RECURSIVE TightenUser(_, _, _, _, _, _)
TightenUser(tasks_sorted, i, latest_free, LS, LF, dur) ==
    IF i > Len(tasks_sorted) THEN [LS |-> LS, LF |-> LF]
    ELSE LET u      == tasks_sorted[i]
             new_lf == Min2(latest_free, LF[u])
             new_ls == new_lf - Max2(0, dur[u])
             change == new_lf < LF[u] \/ new_ls < LS[u]
             LF1    == IF change THEN [LF EXCEPT ![u] = new_lf] ELSE LF
             LS1    == IF change THEN [LS EXCEPT ![u] = new_ls] ELSE LS
         IN  TightenUser(tasks_sorted, i + 1, LS1[u], LS1, LF1, dur)

\* for user, tasks in by_user.items(): one assignee after the other
RECURSIVE TightenUsers(_, _, _, _, _, _)
TightenUsers(users, i, LS, LF, g, fwd) ==
    IF i > Len(users) THEN [LS |-> LS, LF |-> LF]
    ELSE LET tasks == SelectSeq(g.nodes, LAMBDA u : g.assignee[u] = users[i])
             r     == TightenUser(SortedLfDesc(tasks, 1, <<>>, LF, fwd.EF), 1,
                                  fwd.makespan, LS, LF, g.dur)
         IN  TightenUsers(users, i + 1, r.LS, r.LF, g, fwd)

\* for _ in range(3)
RECURSIVE ResourceFeasibility(_, _, _, _, _)
ResourceFeasibility(n, LS, LF, g, fwd) ==
    IF n = 0 THEN [LS |-> LS, LF |-> LF]
    ELSE LET r == TightenUsers(UsersInOrder(g.nodes, g.assignee, 1, <<>>), 1, LS, LF, g, fwd)
         IN  ResourceFeasibility(n - 1, r.LS, r.LF, g, fwd)

\* 3) RCPSP backward pass (approximate)
RcpspBackward(g, order, fwd) ==
    LET ids  == SeqToSet(g.nodes)
        prec == BackwardPass0(Reverse(order), 1,
                              [u \in ids |-> fwd.makespan - Max2(0, g.dur[u])],
                              [u \in ids |-> fwd.makespan], g.succ, g.dur)
    IN  ResourceFeasibility(ResourcePasses, prec.LS, prec.LF, g, fwd)

run_pert_rcpsp_calc(tasks) ==
    LET g      == build_graph_with_assignees(tasks)
        ids    == SeqToSet(g.nodes)
        order  == cpa_topo_sort(g.nodes, g.succ)
        fw0    == ForwardPass0(order, 1, [u \in ids |-> 0],
                               [u \in ids |-> Max2(0, g.dur[u])], g.preds, g.dur)
        mk0    == MaxFinish(ids, fw0.EF)
        bw0    == BackwardPass0(Reverse(order), 1,
                                [u \in ids |-> mk0 - Max2(0, g.dur[u])],
                                [u \in ids |-> mk0], g.succ, g.dur)
        st     == RcpspForward(g)
        fwd    == [ES |-> st.ES, EF |-> st.EF, makespan |-> MaxFinish(ids, st.EF)]
        bw     == RcpspBackward(g, order, fwd)
        slack  == [u \in ids |-> SlackOf(bw.LS[u], fwd.ES[u])]
        slack0 == [u \in ids |-> SlackOf(bw0.LS[u], fw0.ES[u])]
        crit   == {u \in ids : IsZeroSlack(slack[u])}
    IN  [project_duration |-> fwd.makespan,
         tasks |-> [i \in 1..Len(order) |->
                      LET u == order[i]
                      IN  [id |-> u, assignee |-> g.assignee[u], duration |-> g.dur[u],
                           ES |-> fwd.ES[u], EF |-> fwd.EF[u],
                           LS |-> bw.LS[u], LF |-> bw.LF[u], slack |-> slack[u],
                           ES_plain |-> fw0.ES[u], EF_plain |-> fw0.EF[u],
                           LS_plain |-> bw0.LS[u], LF_plain |-> bw0.LF[u],
                           slack_plain |-> slack0[u],
                           isCritical |-> u \in crit]],
         critical_path |-> CriticalPathOf(order, g.nodes, crit),
         pops  |-> st.pops,
         sched |-> st.sched]

----------------------------------------------------------------------------
(* Calendar arithmetic: backend/tools/cpa/engine/sprint_timeline.py *)

\* date.weekday(): 0 = Monday .. 6 = Sunday
Weekday(d) == d % 7

\* d.weekday() in working_days and d not in holidays
IsWorkingDay(d, working_days, holidays) ==
    Weekday(d) \in working_days /\ d \notin holidays

\* what stands for a call that never returns
Diverged == -1

\* A loop over consecutive dates that has not met a working non-holiday day within
\* 7 * (n + |holidays|) dates never meets one: no weekday is a working day.
LoopFuel(n, holidays) == 7 * (n + Cardinality(holidays)) + 1

\* while consumed < days: count d if it is a working day; return it when it is the
\* days-th one; d = d + timedelta(days=1)
RECURSIVE AdvanceLoop(_, _, _, _, _, _)
AdvanceLoop(d, consumed, days, working_days, holidays, fuel) ==
    IF fuel = 0 THEN Diverged
    ELSE IF IsWorkingDay(d, working_days, holidays)
         THEN IF consumed + 1 = days THEN d
              ELSE AdvanceLoop(d + 1, consumed + 1, days, working_days, holidays, fuel - 1)
         ELSE AdvanceLoop(d + 1, consumed, days, working_days, holidays, fuel - 1)

\* a faulty _advance_working_days: the start date is counted without looking at it
advance_counting_start(start, days, working_days, holidays) ==
    IF days <= 0 THEN start
    ELSE IF days = 1 THEN start
    ELSE AdvanceLoop(start + 1, 1, days, working_days, holidays,
                     LoopFuel(days, holidays))

advance_working_days(start, days, working_days, holidays) ==
    IF days <= 0 THEN start
    ELSE AdvanceLoop(start, 0, days, working_days, holidays, LoopFuel(days, holidays))

\* while True: return cur if it is a working non-holiday day; cur += 1 day
RECURSIVE NextWorkingLoop(_, _, _, _)
NextWorkingLoop(cur, working_days, holidays, fuel) ==
    IF fuel = 0 THEN Diverged
    ELSE IF IsWorkingDay(cur, working_days, holidays) THEN cur
         ELSE NextWorkingLoop(cur + 1, working_days, holidays, fuel - 1)

\* a faulty _next_working_day: the date is not aligned
next_working_day_unaligned(d, working_days, holidays) == d

next_working_day(d, working_days, holidays) ==
    NextWorkingLoop(d, working_days, holidays, LoopFuel(1, holidays))

\* An Optional value that is no string: Nothing is Python's None, Some(x) is x
Nothing == <<>>

Some(x) == <<x>>

\* date.isoformat(): the ISO string of a date
Isoformat(d) == [well_formed |-> TRUE, date |-> d]

\* a string that is no date
NotADate == [well_formed |-> FALSE, date |-> 0]

\* _parse_iso_date on an Optional string: None for a missing or malformed string,
\* else the date
parse_iso_date(str) ==
    IF str = Nothing THEN Nothing
    ELSE IF ~str[1].well_formed THEN Nothing
    ELSE Some(str[1].date)

\* _to_date_set on an Optional list of strings: the dates of the strings that parse
to_date_set(dates) ==
    IF dates = Nothing THEN {}
    ELSE LET l == dates[1]
         IN  {parse_iso_date(Some(l[i]))[1] :
                 i \in {j \in 1..Len(l) : parse_iso_date(Some(l[j])) # Nothing}}

\* (holidays_by_user or {}).get(user)
HolidaysOfUser(holidays_by_user, user) ==
    IF holidays_by_user = Nothing THEN Nothing
    ELSE IF user \in DOMAIN holidays_by_user[1] THEN Some(holidays_by_user[1][user])
    ELSE Nothing

\* _get_task_duration: the story points when the field is set, else 1.0 (no time
\* estimate is carried by the issues drawn here)
get_task_duration(fields) ==
    IF fields.story_points # Nothing THEN fields.story_points[1] ELSE 1

\* duration_whole = int(math.ceil(max(0.0, float(duration_days)))) or 1
DurationWhole(duration_days) ==
    LET c == Max2(0, duration_days) IN IF c = 0 THEN 1 ELSE c

\* (fields.get("assignee") or {}).get("displayName") if fields.get("assignee") else "Unassigned"
AssigneeName(fields) == IF fields.assignee # None THEN fields.assignee ELSE "Unassigned"

\* _extract_sprint_dates: the earliest startDate found on any issue, None if none
ExtractSprintStart(iss) ==
    LET starts == {parse_iso_date(iss[i].fields.sprint_start) : i \in 1..Len(iss)}
                      \ {Nothing}
    IN  IF starts = {} THEN Nothing ELSE Some(MinOf({d[1] : d \in starts}))

\* base_start = sprint_start or start_dt or datetime.utcnow().date()
BaseStart(iss, start_on, now) ==
    LET sprint_start == ExtractSprintStart(iss)
        start_dt     == IF start_on # Nothing THEN parse_iso_date(start_on) ELSE Nothing
    IN  IF sprint_start # Nothing THEN sprint_start[1]
        ELSE IF start_dt # Nothing THEN start_dt[1]
        ELSE now

\* set(working_days) if working_days is not None else the default of the mode
WorkingDaysSet(working_days, default) ==
    IF working_days = Nothing THEN default ELSE SeqToSet(working_days[1])

\* items: one per issue, in issue order
TimelineItems(iss) ==
    [i \in 1..Len(iss) |->
        [key |-> iss[i].key,
         assignee |-> AssigneeName(iss[i].fields),
         estimated_days |-> DurationWhole(get_task_duration(iss[i].fields))]]

\* the assignees of the items in order of first appearance (by_user.setdefault)
RECURSIVE ItemUsers(_, _, _)
ItemUsers(items, i, acc) ==
    IF i > Len(items) THEN acc
    ELSE ItemUsers(items, i + 1,
                   IF Contains(acc, items[i].assignee) THEN acc
                   ELSE Append(acc, items[i].assignee))

\* sorted(tasks, key=lambda t: (_issue_key_number(t.get("key")), t.get("key") or ""))
SortedQueue(items, user) ==
    LET mine == SelectSeq(items, LAMBDA it : it.assignee = user)
        keys == SortByIssueKey([i \in 1..Len(mine) |-> mine[i].key])
    IN  [i \in 1..Len(keys) |->
            mine[CHOOSE j \in 1..Len(mine) : mine[j].key = keys[i]]]

\* for t in tasks: start_d, end_d; current = end_d + timedelta(days=1)
RECURSIVE LayOut(_, _, _, _, _, _, _)
LayOut(tasks, i, current, user, working_days, holidays, acc) ==
    IF i > Len(tasks) THEN acc
    ELSE LET t       == tasks[i]
             start_d == next_working_day(current, working_days, holidays)
             end_d   == advance_working_days(start_d, t.estimated_days, working_days, holidays)
         IN  LayOut(tasks, i + 1, end_d + 1, user, working_days, holidays,
                    Append(acc, [issue |-> t.key, assignee |-> user,
                                 start |-> Isoformat(start_d), end |-> Isoformat(end_d),
                                 days |-> t.estimated_days]))

\* overall_end = max(all ends, default=base_start)
OverallEnd(schedules, users, base_start) ==
    LET all_ends == UNION {{parse_iso_date(Some(schedules[u][i].end)) :
                               i \in 1..Len(schedules[u])} : u \in SeqToSet(users)}
    IN  IF all_ends \ {Nothing} = {} THEN base_start
        ELSE MaxOf({d[1] : d \in all_ends \ {Nothing}})

current_sprint_cpa_timeline(iss, params, now) ==
    LET base_start == BaseStart(iss, params.start_on, now)
        wd         == WorkingDaysSet(params.working_days, {0, 1, 2, 3, 4})
        global     == to_date_set(params.global_holidays)
        items      == TimelineItems(iss)
        users      == ItemUsers(items, 1, <<>>)
        schedules  == [u \in SeqToSet(users) |->
                          LayOut(SortedQueue(items, u), 1, base_start, u, wd,
                                 to_date_set(HolidaysOfUser(params.holidays_by_user, u))
                                     \cup global,
                                 <<>>)]
    IN  [start_used |-> Isoformat(base_start),
         working_days |-> wd,
         issues_count |-> Len(items),
         users |-> users,
         per_issue_completion |->
             [k \in {items[i].key : i \in 1..Len(items)} |->
                 LET it == items[CHOOSE i \in 1..Len(items) : items[i].key = k]
                     s  == schedules[it.assignee]
                 IN  s[CHOOSE j \in 1..Len(s) : s[j].issue = k].end],
         per_assignee_timeline |-> schedules,
         overall_completion_date |-> Isoformat(OverallEnd(schedules, users, base_start))]

----------------------------------------------------------------------------
(* Dependency-aware calendar scheduling: backend/tools/cpa/engine/sprint_dependency.py *)

\* d[k] = v on a dict
DictSet(d, k, v) == [x \in DOMAIN d \cup {k} |-> IF x = k THEN v ELSE d[x]]

\* d.get(k, default)
DictGet(d, k, default) == IF k \in DOMAIN d THEN d[k] ELSE default

\* _parse_dependencies: the inward issue keys of the links of a blocking type;
\* inward_blocked stands for: "blocked" in inward_desc
parse_dependencies(fields) ==
    LET blocking == SelectSeq(fields.issuelinks,
                              LAMBDA l : l.inwardIssue # Nothing
                                         /\ (l.inward_blocked
                                             \/ l.type_name \in {"blocks", "dependency",
                                                                  "depends"}))
    IN  [i \in 1..Len(blocking) |-> blocking[i].inwardIssue[1]]

\* deps = [d for d in deps_all if d in present_keys and d != key]
DepsInSprint(deps_all, present_keys, key) ==
    SelectSeq(deps_all, LAMBDA d : d \in present_keys /\ d # key)

\* current_sprint_dependency_graph: the nodes dict, with its key order
current_sprint_dependency_graph(iss) ==
    LET present_keys == {iss[i].key : i \in 1..Len(iss)}
    IN  [order |-> [i \in 1..Len(iss) |-> iss[i].key],
         nodes |-> [k \in present_keys |->
                      LET f == iss[CHOOSE i \in 1..Len(iss) : iss[i].key = k].fields
                      IN  [assignee |-> AssigneeName(f),
                           duration_days |-> DurationWhole(get_task_duration(f)),
                           dependencies |->
                               DepsInSprint(parse_dependencies(f), present_keys, k)]]]

\* succ[u]: v once per occurrence of u in v's dependencies, v in key order
RECURSIVE DepSuccList(_, _, _)
DepSuccList(graph, u, i) ==
    IF i > Len(graph.order) THEN <<>>
    ELSE [j \in 1..Count(graph.nodes[graph.order[i]].dependencies, u) |-> graph.order[i]]
         \o DepSuccList(graph, u, i + 1)

\* a faulty start date: the assignee's availability is ignored
StartDateNoResource(current_date, avail) == current_date

\* sdt = max(current_date, avail)
StartDate(current_date, avail) == Max2(current_date, avail)

\* try_schedule(k, current_date) of the calendar scheduler
dep_try_schedule(st, graph, env, k, current_date) ==
    LET nd    == graph.nodes[k]
        user  == nd.assignee
        user_holidays == to_date_set(HolidaysOfUser(env.holidays_by_user, user))
                             \cup env.global_hols_set
        avail == DictGet(st.next_free, user, env.base_start)
        sdt   == StartDate(current_date, avail)
        edt   == advance_working_days(sdt, nd.duration_days, env.working_days_set,
                                      user_holidays)
    IN  [st EXCEPT !.start_dates = DictSet(@, k, sdt),
                   !.end_dates = DictSet(@, k, edt),
                   !.next_free = DictSet(@, user, edt + 1),
                   !.heap = @ \cup {<<edt, k>>},
                   !.sched = Append(@, k)]

\* while i < len(ready): try_schedule(ready[i], current_date)
RECURSIVE DepScheduleReady(_, _, _, _, _)
DepScheduleReady(st, graph, env, ready, i) ==
    IF i > Len(ready) THEN st
    ELSE DepScheduleReady(dep_try_schedule(st, graph, env, ready[i], env.base_start),
                          graph, env, ready, i + 1)

\* for v in succ.get(done_key, []): indeg[v] -= 1; if indeg[v] == 0: try_schedule
RECURSIVE DepRelaxSuccessors(_, _, _, _, _, _)
DepRelaxSuccessors(st, graph, env, vs, i, current_date) ==
    IF i > Len(vs) THEN st
    ELSE LET v   == vs[i]
             st1 == [st EXCEPT !.indeg[v] = @ - 1]
         IN  DepRelaxSuccessors(IF st1.indeg[v] = 0
                                THEN dep_try_schedule(st1, graph, env, v, current_date)
                                ELSE st1,
                                graph, env, vs, i + 1, current_date)

\* while heap: edt, done_key = heappop(heap); current_date = edt; relax successors
RECURSIVE DepEventLoop(_, _, _)
DepEventLoop(st, graph, env) ==
    IF st.heap = {} THEN st
    ELSE LET top == HeapMin(st.heap)
             st1 == [st EXCEPT !.heap = @ \ {top}]
         IN  DepEventLoop(DepRelaxSuccessors(st1, graph, env,
                                             DepSuccList(graph, top[2], 1), 1, top[1]),
                          graph, env)

schedule_current_sprint_with_dependencies(iss, params, now) ==
    LET base_start == BaseStart(iss, params.start_on, now)
        env   == [base_start |-> base_start,
                  working_days_set |-> WorkingDaysSet(params.working_days, 0..6),
                  global_hols_set |-> to_date_set(params.global_holidays),
                  holidays_by_user |-> params.holidays_by_user]
        graph == current_sprint_dependency_graph(iss)
        keys  == SeqToSet(graph.order)
        indeg == [v \in keys |-> Len(graph.nodes[v].dependencies)]
        ready == SortReady(SelectSeq(graph.order, LAMBDA k : indeg[k] = 0))
        st0   == [next_free |-> <<>>, start_dates |-> <<>>, end_dates |-> <<>>,
                  heap |-> {}, indeg |-> indeg, sched |-> <<>>]
        st    == DepEventLoop(DepScheduleReady(st0, graph, env, ready, 1), graph, env)
    IN  IF \E k \in keys : k \notin DOMAIN st.start_dates
        THEN [error |-> "KeyError"]       \* start_dates[k] of a node never scheduled
        ELSE [error |-> None,
              start_used |-> Isoformat(base_start),
              order |-> graph.order,
              sched |-> st.sched,
              per_issue_schedule |->
                  [k \in keys |->
                      [assignee |-> graph.nodes[k].assignee,
                       start |-> Isoformat(st.start_dates[k]),
                       end |-> Isoformat(st.end_dates[k]),
                       days |-> graph.nodes[k].duration_days,
                       dependencies |-> graph.nodes[k].dependencies]],
              overall_completion_date |->
                  Isoformat(IF DOMAIN st.end_dates = {} THEN base_start
                            ELSE MaxOf({st.end_dates[k] : k \in DOMAIN st.end_dates}))]

----------------------------------------------------------------------------
(* ETA range of one issue: backend/tools/cpa/engine/sprint_eta.py *)

\* position of the first occurrence of x in the list s (list.index)
IndexOf(s, x) == CHOOSE i \in 1..Len(s) : s[i] = x /\ \A j \in 1..(i - 1) : s[j] # x

\* dfs(u) of _detect_cycles on the state [color, stack, cycles], and its loop over
\* the dependencies of u
RECURSIVE Dfs(_, _, _), DfsDeps(_, _, _, _)
Dfs(nodes, st, u) ==
    IF st.color[u] = 1
    THEN IF Contains(st.stack, u)
         THEN [st EXCEPT !.cycles =
                  Append(@, SubSeq(st.stack, IndexOf(st.stack, u), Len(st.stack)) \o <<u>>)]
         ELSE st
    ELSE IF st.color[u] = 2 THEN st
    ELSE LET st1 == [st EXCEPT !.color[u] = 1, !.stack = Append(@, u)]
             st2 == DfsDeps(nodes, st1, nodes[u].dependencies, 1)
         IN  [st2 EXCEPT !.stack = SubSeq(@, 1, Len(@) - 1), !.color[u] = 2]

DfsDeps(nodes, st, deps, i) ==
    IF i > Len(deps) THEN st
    ELSE DfsDeps(nodes,
                 IF deps[i] \in DOMAIN nodes THEN Dfs(nodes, st, deps[i]) ELSE st,
                 deps, i + 1)

\* for k in nodes.keys(): if color[k] == 0: dfs(k)
RECURSIVE DfsRoots(_, _, _, _)
DfsRoots(nodes, order, st, i) ==
    IF i > Len(order) THEN st
    ELSE DfsRoots(nodes, order,
                  IF st.color[order[i]] = 0 THEN Dfs(nodes, st, order[i]) ELSE st,
                  i + 1)

\* a faulty _detect_cycles: only the first key of the graph is searched
detect_cycles_first_root(nodes, order) ==
    IF order = <<>> THEN <<>>
    ELSE Dfs(nodes, [color |-> [k \in DOMAIN nodes |-> 0], stack |-> <<>>,
                     cycles |-> <<>>], order[1]).cycles

\* a faulty _detect_cycles: the closing id is not appended to a recorded cycle
detect_cycles_open(nodes, order) ==
    LET cs == DfsRoots(nodes, order,
                       [color |-> [k \in DOMAIN nodes |-> 0], stack |-> <<>>,
                        cycles |-> <<>>], 1).cycles
    IN  [i \in 1..Len(cs) |-> SubSeq(cs[i], 1, Len(cs[i]) - 1)]

\* _detect_cycles(nodes); order is the key order of the dict
detect_cycles(nodes, order) ==
    DfsRoots(nodes, order,
             [color |-> [k \in DOMAIN nodes |-> 0], stack |-> <<>>, cycles |-> <<>>],
             1).cycles

\* _topo_order(nodes): Kahn's algorithm, first in first out, no fall-back
topo_order(graph) ==
    KahnOrder(graph.order, [u \in DOMAIN graph.nodes |-> DepSuccList(graph, u, 1)])

\* def dfs(u): for p in parents.get(u, []): if p not in anc: anc.add(p); dfs(p)
\* parents[v] is the dependency list of v
RECURSIVE AncDfs(_, _, _, _)
AncDfs(nodes, anc, ps, i) ==
    IF i > Len(ps) THEN anc
    ELSE LET p == ps[i]
         IN  AncDfs(nodes,
                    IF p \in anc THEN anc
                    ELSE AncDfs(nodes, anc \cup {p},
                                IF p \in DOMAIN nodes THEN nodes[p].dependencies ELSE <<>>, 1),
                    ps, i + 1)

\* a faulty ancestor search: only the direct dependencies of the target
direct_dependencies_of_target(nodes, target) == SeqToSet(nodes[target].dependencies)

\* _compute_ancestors_of_target(nodes, target)
compute_ancestors_of_target(nodes, target) ==
    AncDfs(nodes, {}, nodes[target].dependencies, 1)

\* max(deps, key=lambda d: EF.get(d, 0)): the first dependency of the largest EF
MaxDep(deps, EF) ==
    deps[CHOOSE i \in 1..Len(deps) :
            /\ \A j \in 1..Len(deps) : DictGet(EF, deps[j], 0) <= DictGet(EF, deps[i], 0)
            /\ \A j \in 1..(i - 1) : DictGet(EF, deps[j], 0) < DictGet(EF, deps[i], 0)]

\* int(max(1, nodes[k].get("duration_days") or 1))
DurOf(nodes, k) == Max2(1, IF nodes[k].duration_days = 0 THEN 1 ELSE nodes[k].duration_days)

\* nodes[u].get("assignee") or "UNASSIGNED"
UserOf(nodes, u) == IF nodes[u].assignee = "" THEN "UNASSIGNED" ELSE nodes[u].assignee

\* 2) optimistic schedule: for u in order: start at max(deps_finish, ass_avail[user])
RECURSIVE OptimisticPass(_, _, _, _)
OptimisticPass(nodes, order, i, st) ==
    IF i > Len(order) THEN st
    ELSE LET u    == order[i]
             deps == nodes[u].dependencies
             deps_finish == IF deps # <<>> THEN DictGet(st.EF, MaxDep(deps, st.EF), 0) ELSE 0
             user == UserOf(nodes, u)
             start_u == Max2(deps_finish, DictGet(st.ass_avail, user, 0))
             ef   == start_u + DurOf(nodes, u)
         IN  OptimisticPass(nodes, order, i + 1,
                            [ES |-> [st.ES EXCEPT ![u] = start_u],
                             EF |-> [st.EF EXCEPT ![u] = ef],
                             ass_avail |-> DictSet(st.ass_avail, user, ef)])

\* while cur and cur not in visited_cp: crit_path.append(cur); cur = the dependency
\* of the largest EF
RECURSIVE CritPathWalk(_, _, _, _)
CritPathWalk(nodes, EF, cur, crit_path) ==
    IF Contains(crit_path, cur) THEN crit_path
    ELSE LET deps == nodes[cur].dependencies
         IN  IF deps = <<>> THEN Append(crit_path, cur)
             ELSE CritPathWalk(nodes, EF, MaxDep(deps, EF), Append(crit_path, cur))

\* a faulty start time: the availability of the assignee is ignored
StartTimeDepsOnly(nodes, st, k) == st.deps_finish_req[k]

\* start_time_for(k) = max(ass_avail2.get(user, 0), deps_finish_req.get(k, 0))
StartTimeFor(nodes, st, k) ==
    Max2(DictGet(st.ass_avail2, UserOf(nodes, k), 0), st.deps_finish_req[k])

\* a faulty pool: the tasks of the earliest start, ancestors of the target or not
PoolEarliest(nodes, ancestors, st) ==
    LET min_start == MinOf({StartTimeFor(nodes, st, k) : k \in st.ready})
    IN  {k \in st.ready : StartTimeFor(nodes, st, k) = min_start}

\* the ready tasks of the earliest start, the non-ancestors among them if any
Pool(nodes, ancestors, st) ==
    LET min_start == MinOf({StartTimeFor(nodes, st, k) : k \in st.ready})
        earliest  == {k \in st.ready : StartTimeFor(nodes, st, k) = min_start}
        non_anc   == earliest \ ancestors
    IN  IF non_anc # {} THEN non_anc ELSE earliest

\* chosen = max(pool, key=dur_of): the first task of the largest duration in the
\* iteration order of the set `ready`, which is not fixed: any task of the largest
\* duration
Choices(nodes, pool) ==
    {k \in pool : \A j \in pool : DurOf(nodes, j) <= DurOf(nodes, k)}

\* a faulty update of the successors: no successor ever becomes ready
PessRelaxNoReady(st, vs, i, ft) == st

\* for v in succ.get(chosen, []): indeg[v] -= 1; deps_finish_req[v] = max(.., ft);
\* if indeg[v] == 0: ready.add(v)
RECURSIVE PessRelax(_, _, _, _)
PessRelax(st, vs, i, ft) ==
    IF i > Len(vs) THEN st
    ELSE LET v   == vs[i]
             st1 == [st EXCEPT !.indeg[v] = @ - 1, !.deps_finish_req[v] = Max2(@, ft)]
         IN  PessRelax(IF st1.indeg[v] = 0 THEN [st1 EXCEPT !.ready = @ \cup {v}] ELSE st1,
                       vs, i + 1, ft)

\* one turn of `while ready` with the task chosen
PessStep(graph, st, chosen) ==
    LET nodes == graph.nodes
        start == StartTimeFor(nodes, st, chosen)
        ft    == start + DurOf(nodes, chosen)
        st1   == [st EXCEPT !.ES2 = DictSet(@, chosen, start),
                            !.EF2 = DictSet(@, chosen, ft),
                            !.ass_avail2 = DictSet(@, UserOf(nodes, chosen), ft),
                            !.ready = @ \ {chosen},
                            !.sched_order = Append(@, chosen)]
    IN  PessRelax(st1, DepSuccList(graph, chosen, 1), 1, ft)

\* 3) pessimistic heuristic: every state the loop `while ready` can end in
RECURSIVE PessimisticRuns(_, _, _)
PessimisticRuns(graph, ancestors, st) ==
    IF st.ready = {} THEN {st}
    ELSE UNION {PessimisticRuns(graph, ancestors, PessStep(graph, st, k)) :
                   k \in Choices(graph.nodes, Pool(graph.nodes, ancestors, st))}

\* to_sched_list(order_list, ESmap, EFmap)
to_sched_list(nodes, order_list, ESmap, EFmap) ==
    [i \in 1..Len(order_list) |->
        LET k == order_list[i]
        IN  [id |-> k,
             assignee |-> nodes[k].assignee,
             est |-> DictGet(ESmap, k, 0),
             eft |-> DictGet(EFmap, k, DictGet(ESmap, k, 0) + DurOf(nodes, k)),
             duration |-> DurOf(nodes, k),
             deps |-> nodes[k].dependencies]]

\* nd["duration_days"] = int(math.ceil(max(1.0, nd["duration_days"] * 8.0 / cap)));
\* the capacities drawn divide 8 or are multiples of it, so the factor is exact
ScaleDuration(duration_days, cap) ==
    LET n == duration_days * 8
        c == (n + cap - 1) \div cap
    IN  Max2(1, c)

\* if capacity_hours_per_user: scale the durations of the users with a capacity > 0
ApplyCapacity(graph, capacity_hours_per_user) ==
    IF capacity_hours_per_user = Nothing \/ DOMAIN capacity_hours_per_user[1] = {}
    THEN graph
    ELSE [graph EXCEPT !.nodes =
            [k \in DOMAIN graph.nodes |->
                LET nd  == graph.nodes[k]
                    cap == DictGet(capacity_hours_per_user[1], UserOf(graph.nodes, k), 0)
                IN  IF cap > 0
                    THEN [nd EXCEPT !.duration_days = ScaleDuration(@, cap)]
                    ELSE nd]]

\* a faulty report: the pessimistic finish is reported as computed
ReportUnclamped(pessimistic_days, optimistic_days) == pessimistic_days

\* pessimistic_days if pessimistic_days >= optimistic_days else optimistic_days
ReportPessimistic(pessimistic_days, optimistic_days) ==
    IF pessimistic_days >= optimistic_days THEN pessimistic_days ELSE optimistic_days

\* the successful result built from the optimistic pass and one pessimistic run
EtaResult(graph, issue_key, order, opt, crit_path, ancestors, pess) ==
    LET optimistic_days  == DictGet(opt.EF, issue_key, 0)
        pessimistic_days == DictGet(pess.EF2, issue_key, 0)
    IN  [issue |-> issue_key,
         error |-> None,
         optimistic_days |-> optimistic_days,
         pessimistic_days |-> ReportPessimistic(pessimistic_days, optimistic_days),
         optimistic_schedule |-> to_sched_list(graph.nodes, order, opt.ES, opt.EF),
         pessimistic_schedule |->
             to_sched_list(graph.nodes, pess.sched_order, pess.ES2, pess.EF2),
         optimistic_critical_path |-> Reverse(crit_path),
         pessimistic_blockers |-> SortedStr(ancestors)]

\* a faulty graph for a request: the graph object of the request before is used again
GraphReused(iss, last_graph) ==
    IF last_graph # Nothing THEN last_graph[1] ELSE current_sprint_dependency_graph(iss)

\* graph = current_sprint_dependency_graph(project_key): built from the cached
\* issue records in every request, whatever graph object a request before has left
GraphForRequest(iss, last_graph) == current_sprint_dependency_graph(iss)

\* the state of the pessimistic pass before its loop: indeg, deps_finish_req, ready
PessInit(nodes) ==
    LET keys  == DOMAIN nodes
        indeg == [v \in keys |-> Len(nodes[v].dependencies)]
    IN  [indeg |-> indeg,
         deps_finish_req |-> [k \in keys |-> 0],
         ready |-> {k \in keys : indeg[k] = 0},
         ass_avail2 |-> <<>>, ES2 |-> <<>>, EF2 |-> <<>>,
         sched_order |-> <<>>]

\* the result built once the loop has ended in the state final
EtaReport(graph, issue_key, final) ==
    LET nodes == graph.nodes
        keys  == DOMAIN nodes
        order == topo_order(graph)
        opt   == OptimisticPass(nodes, order, 1,
                                [ES |-> [k \in keys |-> 0],
                                 EF |-> [k \in keys |-> 0],
                                 ass_avail |-> <<>>])
        crit_path == CritPathWalk(nodes, opt.EF, issue_key, <<>>)
        ancestors == compute_ancestors_of_target(nodes, issue_key)
    IN  EtaResult(graph, issue_key, order, opt, crit_path, ancestors, final)

\* the request from its cycle detection on, on the graph built and scaled
EtaOnGraph(graph, issue_key) ==
    LET nodes  == graph.nodes
        cycles == detect_cycles(nodes, graph.order)
    IN  IF cycles # <<>>
        THEN {[issue |-> issue_key, error |-> "cycle_detected", cycles |-> cycles]}
        ELSE {EtaReport(graph, issue_key, final) :
                 final \in PessimisticRuns(graph,
                                           compute_ancestors_of_target(nodes, issue_key),
                                           PessInit(nodes))}

\* compute_eta_range_for_issue_current_sprint(project_key, issue_key,
\* capacity_hours_per_user): every result the call can return
compute_eta_range_for_issue_current_sprint(iss, issue_key, capacity_hours_per_user) ==
    LET graph0 == current_sprint_dependency_graph(iss)
    IN  IF issue_key \notin DOMAIN graph0.nodes
        THEN {[issue |-> issue_key, error |-> "issue not found in current sprint"]}
        ELSE EtaOnGraph(ApplyCapacity(graph0, capacity_hours_per_user), issue_key)

----------------------------------------------------------------------------
(* The CPA engine as a state machine: a project is loaded, an entry point runs *)

NoResult == [project_duration |-> 0, tasks |-> <<>>, critical_path |-> <<>>]

\* the ids in string order
IdsByStr == SortedStr(Ids)

\* a dependency list for every task of S, over the other tasks of the project when it
\* has three tasks, and over every id (absent ids, the task itself) when it has
\* fewer; at most MaxDeps entries in all
DepChoices(S) ==
    {deps \in [S -> SUBSET Ids] :
        /\ Cardinality(S) = Cardinality(Ids) => \A u \in S : u \notin deps[u]
        /\ SumSeq([i \in 1..Len(IdsByStr) |->
                     IF IdsByStr[i] \in S THEN Cardinality(deps[IdsByStr[i]]) ELSE 0])
              <= MaxDeps}

\* ProjectModel(tasks=[TaskModel(id, estimate_days, assignee, dependencies), ...])
ProjectOf(ord, est, asg, deps) ==
    [i \in 1..Len(ord) |->
        [id |-> ord[i], estimate_days |-> est[ord[i]], assignee |-> asg[ord[i]],
         dependencies |-> Filter(IdsByStr, deps[ord[i]])]]

\* Scenario A of the specification: A(2) -> B(3) -> C(1), no owners
ScenarioA ==
    << [id |-> <<"V">>, estimate_days |-> 2, assignee |-> None, dependencies |-> <<>>],
       [id |-> <<"T", "-", "2">>, estimate_days |-> 3, assignee |-> None,
        dependencies |-> << <<"V">> >>],
       [id |-> <<"T", "-", "1", "0">>, estimate_days |-> 1, assignee |-> None,
        dependencies |-> << <<"T", "-", "2">> >>] >>

\* Scenario B of the specification: A(3, X), B(3, X), independent
ScenarioB ==
    << [id |-> <<"T", "-", "2">>, estimate_days |-> 3, assignee |-> "X",
        dependencies |-> <<>>],
       [id |-> <<"T", "-", "1", "0">>, estimate_days |-> 3, assignee |-> "X",
        dependencies |-> <<>>] >>

\* no CPA request is in progress
IdleCpa ==
    /\ project = <<>>
    /\ cpa_plain = NoResult
    /\ cpa_rcpsp = NoResult
    /\ cpa_pc = "idle"

\* no call of _advance_working_days is in progress
IdleAdv ==
    /\ adv_in = Nothing
    /\ adv_out = Nothing

\* no calendar request is in progress
IdleCal ==
    /\ issues = <<>>
    /\ cal = Nothing
    /\ today = 0
    /\ timeline = Nothing
    /\ dep_schedule = Nothing
    /\ cal_pc = "idle"

\* no ETA request is in progress
IdleEta ==
    /\ eta_req = Nothing
    /\ eta = Nothing

\* no ETA request is followed step by step
IdleSteps ==
    /\ eta_pc = "idle"
    /\ eta_graph = Nothing
    /\ pess_st = Nothing
    /\ eta_prev = Nothing

\* the cache of sprint issues is empty and has not been called
IdleJira ==
    /\ jira_cache = <<>>
    /\ now_ts = 0
    /\ jira_up = <<>>
    /\ cache_ret = Nothing
    /\ calls = 0

\* no request sprint_completion_if_issue_removed is in progress
IdleRm ==
    /\ rm_issues = Nothing
    /\ removal = Nothing

IdleExt == IdleSteps /\ IdleJira /\ IdleRm

\* no single-issue query and no wrapper of the ETA estimator is in progress
IdleSvc ==
    /\ query_key = Nothing
    /\ expected = Nothing
    /\ estimate = Nothing
    /\ answer = Nothing
    /\ endpoint = Nothing

InitCpa ==
    /\ \/ \E S \in SUBSET Ids : \E deps \in DepChoices(S) : \E ord \in Orderings(S) :
            \E est \in [S -> 0..MaxDur] : \E asg \in [S -> Assignees] :
              project = ProjectOf(ord, est, asg, deps)
       \/ project \in {ScenarioA, ScenarioB}
    /\ cpa_plain = NoResult
    /\ cpa_rcpsp = NoResult
    /\ cpa_pc = "loaded"
    /\ IdleAdv
    /\ IdleCal
    /\ IdleEta
    /\ IdleSvc
    /\ IdleExt

\* one call of run_cpa_calc(project)
RunCpaCalc ==
    /\ cpa_pc = "loaded"
    /\ cpa_plain' = run_cpa_calc(project)
    /\ cpa_pc' = "run_cpa_calc"
    /\ UNCHANGED <<project, cpa_rcpsp, adv_vars, cal_vars, eta_vars, svc_vars, ext_vars>>

\* one call of _run_pert_rcpsp_calc(project)
RunPertRcpspCalc ==
    /\ cpa_pc = "loaded"
    /\ cpa_rcpsp' = run_pert_rcpsp_calc(project)
    /\ cpa_pc' = "run_pert_rcpsp_calc"
    /\ UNCHANGED <<project, cpa_plain, adv_vars, cal_vars, eta_vars, svc_vars, ext_vars>>

NextCpa == RunCpaCalc \/ RunPertRcpspCalc

SpecCpa == InitCpa /\ [][NextCpa]_vars

----------------------------------------------------------------------------
(* Properties of the CPA engine *)

TaskIds(tasks) == SeqToSet(NodeIds(tasks))

\* the dependencies of u that are tasks of the project
DepsIn(tasks, u) == SeqToSet(TaskById(tasks, u).dependencies) \cap TaskIds(tasks)

\* the tasks reachable from S along dependency entries, S included
RECURSIVE DepClosure(_, _, _)
DepClosure(tasks, S, n) ==
    IF n = 0 THEN S
    ELSE DepClosure(tasks, S \cup UNION {DepsIn(tasks, v) : v \in S}, n - 1)

\* the tasks reachable from u by one or more dependency entries
AncestorsOf(tasks, u) == DepClosure(tasks, DepsIn(tasks, u), Len(tasks))

Acyclic(tasks) == \A u \in TaskIds(tasks) : u \notin AncestorsOf(tasks, u)

\* the entry of task u in a result
Entry(res, u) == res.tasks[CHOOSE i \in 1..Len(res.tasks) : res.tasks[i].id = u]

PlainDone == cpa_pc = "run_cpa_calc"

RcpspDone == cpa_pc = "run_pert_rcpsp_calc"

\* C1 (topological validity): on an acyclic project, for every dependency entry
\* (dep, dependent) between tasks of the project, EF[dep] <= ES[dependent] in the
\* result of run_cpa_calc, and in the result of _run_pert_rcpsp_calc both for the
\* plain fields ES_plain/EF_plain and for the resource-constrained ES/EF.
C1_TopologicalValidity ==
    Acyclic(project) =>
        \A t \in TaskIds(project) : \A d \in DepsIn(project, t) :
            /\ PlainDone => Entry(cpa_plain, d).EF <= Entry(cpa_plain, t).ES
            /\ RcpspDone => /\ Entry(cpa_rcpsp, d).EF_plain <= Entry(cpa_rcpsp, t).ES_plain
                            /\ Entry(cpa_rcpsp, d).EF <= Entry(cpa_rcpsp, t).ES

\* C1 witness: run_cpa_calc has returned for an acyclic project in which a task has
\* two dependencies that finish at different times and starts at the later finish.
C1_Witness ==
    /\ PlainDone
    /\ Acyclic(project)
    /\ \E t \in TaskIds(project) : \E d, e \in DepsIn(project, t) :
          /\ Entry(cpa_plain, d).EF < Entry(cpa_plain, e).EF
          /\ Entry(cpa_plain, t).ES = Entry(cpa_plain, e).EF

\* the half-open intervals [ES, EF) of two result entries share a point of time
Overlap(a, b) == Max2(a.ES, b.ES) < Min2(a.EF, b.EF)

\* every task has the same assignee and no dependency inside the project
IndependentOneAssignee(tasks) ==
    /\ \A i, j \in 1..Len(tasks) : tasks[i].assignee = tasks[j].assignee
    /\ \A u \in TaskIds(tasks) : DepsIn(tasks, u) = {}

\* C2 (single capacity, RcpspScheduler): in every _run_pert_rcpsp_calc result on an
\* acyclic project two distinct tasks of the same assignee never have overlapping
\* [ES, EF) intervals; when the project consists of independent tasks of one assignee,
\* project_duration is the sum of the durations and the largest EF_plain is the
\* longest single duration.
C2_SingleCapacityRcpsp ==
    (RcpspDone /\ Acyclic(project)) =>
        /\ \A i, j \in 1..Len(cpa_rcpsp.tasks) :
              (i # j /\ cpa_rcpsp.tasks[i].assignee = cpa_rcpsp.tasks[j].assignee)
                  => ~Overlap(cpa_rcpsp.tasks[i], cpa_rcpsp.tasks[j])
        /\ IndependentOneAssignee(project) =>
              /\ cpa_rcpsp.project_duration
                    = SumSeq([i \in 1..Len(project) |->
                                ClampDuration(project[i].estimate_days)])
              /\ \A i \in 1..Len(cpa_rcpsp.tasks) :
                    cpa_rcpsp.tasks[i].EF_plain = cpa_rcpsp.tasks[i].duration
              /\ Len(cpa_rcpsp.tasks) = Len(project)

\* C2 witness: Scenario B has been scheduled: 6 days for owner X, 3 days in plain PERT.
C2_Witness ==
    /\ RcpspDone
    /\ project = ScenarioB
    /\ cpa_rcpsp.project_duration = 6
    /\ MaxOf({cpa_rcpsp.tasks[i].EF_plain : i \in 1..Len(cpa_rcpsp.tasks)}) = 3

\* C6 (slack non-negativity): every task of every result of run_cpa_calc and of
\* _run_pert_rcpsp_calc, on acyclic and on cyclic projects, has slack >= 0 and
\* slack_plain >= 0.
C6_SlackNonNegative ==
    /\ \A i \in 1..Len(cpa_plain.tasks) : cpa_plain.tasks[i].slack >= 0
    /\ \A i \in 1..Len(cpa_rcpsp.tasks) :
          cpa_rcpsp.tasks[i].slack >= 0 /\ cpa_rcpsp.tasks[i].slack_plain >= 0

\* C6 witness: a result in which the clamp acts: a task whose LS lies before its ES
\* is reported with slack 0.
C6_Witness ==
    /\ RcpspDone
    /\ \E i \in 1..Len(cpa_rcpsp.tasks) :
          /\ cpa_rcpsp.tasks[i].LS < cpa_rcpsp.tasks[i].ES
          /\ cpa_rcpsp.tasks[i].slack = 0

\* the ids of the entries of a result whose slack is below the tolerance, in output order
ZeroSlackIds(res) ==
    LET zs == SelectSeq(res.tasks, LAMBDA t : IsZeroSlack(t.slack))
    IN  [i \in 1..Len(zs) |-> zs[i].id]

\* the list lists every dependency before each of its dependents, and no id twice
DepsFirst(tasks, path) ==
    \A a, b \in 1..Len(path) :
        a < b => path[a] # path[b] /\ path[b] \notin DepsIn(tasks, path[a])

CriticalPathOk(res) ==
    /\ res.critical_path = ZeroSlackIds(res)
    /\ \A i \in 1..Len(res.tasks) :
          res.tasks[i].isCritical <=> IsZeroSlack(res.tasks[i].slack)
    /\ Acyclic(project) => DepsFirst(project, res.critical_path)

\* C7 (critical path, zero slack): in every result, critical_path is the output task
\* order filtered to the tasks whose slack is below the tolerance, isCritical is true
\* for exactly those tasks, and on an acyclic project every dependency that is in
\* critical_path comes before each of its dependents in it.
C7_CriticalPathZeroSlack == CriticalPathOk(cpa_plain) /\ CriticalPathOk(cpa_rcpsp)

\* C7 witness: an acyclic project listed against its dependency order, whose result
\* has a dependent and its dependency on the critical path and a task off it.
C7_Witness ==
    /\ RcpspDone
    /\ Acyclic(project)
    /\ NodeIds(project) # [i \in 1..Len(cpa_rcpsp.tasks) |-> cpa_rcpsp.tasks[i].id]
    /\ \E a, b \in 1..Len(cpa_rcpsp.critical_path) :
          cpa_rcpsp.critical_path[a] \in DepsIn(project, cpa_rcpsp.critical_path[b])
    /\ \E i \in 1..Len(cpa_rcpsp.tasks) : ~cpa_rcpsp.tasks[i].isCritical

\* chain lists every task once, the first has no dependency in the project and every
\* later one depends on exactly its predecessor in the chain
IsChainOrder(tasks, chain) ==
    /\ Len(chain) = Len(tasks)
    /\ SeqToSet(chain) = TaskIds(tasks)
    /\ \A k \in 1..Len(chain) :
          DepsIn(tasks, chain[k]) = IF k = 1 THEN {} ELSE {chain[k - 1]}

\* C10 (Scenario A generalised): for a linear chain t1 -> ... -> tn of tasks without
\* owners, run_cpa_calc returns project_duration = the sum of the durations,
\* critical_path = [t1, ..., tn] and slack 0 for every task.
C10_LinearChain ==
    PlainDone =>
        \A chain \in Orderings(TaskIds(project)) :
            (IsChainOrder(project, chain)
               /\ \A i \in 1..Len(project) : project[i].assignee = None)
            => /\ cpa_plain.project_duration
                     = SumSeq([i \in 1..Len(project) |->
                                 ClampDuration(project[i].estimate_days)])
               /\ cpa_plain.critical_path = chain
               /\ Len(cpa_plain.tasks) = Len(project)
               /\ \A i \in 1..Len(cpa_plain.tasks) : cpa_plain.tasks[i].slack = 0

\* C10 witness: Scenario A has been computed: 6 days, critical path A, B, C.
C10_Witness ==
    /\ PlainDone
    /\ project = ScenarioA
    /\ cpa_plain.project_duration = 6
    /\ cpa_plain.critical_path = << <<"V">>, <<"T", "-", "2">>, <<"T", "-", "1", "0">> >>


----------------------------------------------------------------------------
(* _advance_working_days as a state machine: one call on drawn arguments *)

\* the holidays of a call lie near its start date
HolidayPool(start) == {start, start + 1, start + 3}

\* Monday + 5 working days, Mon-Fri, no holidays
MondayPlusFive == [start |-> 0, days |-> 5, working_days |-> 0..4, holidays |-> {}]

InitAdv ==
    /\ \/ \E start \in 0..6 : \E days \in -1..MaxAdvance : \E W \in SUBSET (0..6) :
            \E H \in SUBSET HolidayPool(start) :
              adv_in = Some([start |-> start, days |-> days, working_days |-> W,
                             holidays |-> H])
       \/ adv_in = Some(MondayPlusFive)
    /\ adv_out = Nothing
    /\ IdleCpa
    /\ IdleCal
    /\ IdleEta
    /\ IdleSvc
    /\ IdleExt

\* one call of _advance_working_days; Diverged when its loop never ends
AdvanceWorkingDays ==
    /\ adv_in # Nothing
    /\ adv_out = Nothing
    /\ adv_out' = Some(advance_working_days(adv_in[1].start, adv_in[1].days,
                                            adv_in[1].working_days, adv_in[1].holidays))
    /\ UNCHANGED <<adv_in, cpa_vars, cal_vars, eta_vars, svc_vars, ext_vars>>

NextAdv == AdvanceWorkingDays

SpecAdv == InitAdv /\ [][NextAdv]_vars

\* the working non-holiday days of [a, b]
WorkingDaysIn(a, b, W, H) == {d \in a..b : IsWorkingDay(d, W, H)}

\* C8: _advance_working_days returns start unchanged when days <= 0; when days >= 1
\* and some weekday is a working day it returns, and what it returns is the earliest
\* working non-holiday date d >= start with exactly `days` working non-holiday days
\* in [start, d]; Monday + 5 days with Mon-Fri working gives Friday.
C8_CalendarSkipCorrectness ==
    adv_out # Nothing =>
        LET W == adv_in[1].working_days
            H == adv_in[1].holidays
            N == adv_in[1].days
            s == adv_in[1].start
            r == adv_out[1]
            Good(d) == /\ d >= s
                       /\ IsWorkingDay(d, W, H)
                       /\ Cardinality(WorkingDaysIn(s, d, W, H)) = N
        IN  /\ N <= 0 => r = s
            /\ (N >= 1 /\ W # {}) =>
                  /\ r # Diverged
                  /\ Good(r)
                  /\ \A d \in s..r : Good(d) => d = r
            /\ adv_in[1] = MondayPlusFive => r = 4

\* a call that started on a holiday and consumed several days with days off between
\* them has returned
C8_Witness ==
    /\ adv_out # Nothing
    /\ adv_in[1].days >= 2
    /\ adv_in[1].working_days # {}
    /\ adv_in[1].start \in adv_in[1].holidays
    /\ adv_out[1] > adv_in[1].start + adv_in[1].days


----------------------------------------------------------------------------
(* The calendar schedulers as a state machine: a sprint is fetched, then each kind
   of request is served on it once *)

\* an issue link of type "Blocks" whose inward issue is d
BlocksLink(d) == [type_name |-> "blocks", inward_blocked |-> TRUE, inwardIssue |-> Some(d)]

\* an issue link of type "Relates"
RelatesLink(d) == [type_name |-> "relates", inward_blocked |-> FALSE, inwardIssue |-> Some(d)]

\* a link list for every issue of S, over the other issues of the sprint when it has
\* three issues, and over every key (absent keys, the issue itself) when it has
\* fewer; at most max links in all
LinkChoices(S, max) ==
    {deps \in [S -> SUBSET Ids] :
        /\ Cardinality(S) = Cardinality(Ids) => \A u \in S : u \notin deps[u]
        /\ SumSeq([i \in 1..Len(IdsByStr) |->
                     IF IdsByStr[i] \in S THEN Cardinality(deps[IdsByStr[i]]) ELSE 0])
              <= max}

\* the issues of the open sprint as the tracker returns them
SprintOf(ord, asg, sp, deps, sprint_start) ==
    [i \in 1..Len(ord) |->
        [key |-> ord[i],
         fields |-> [assignee |-> asg[ord[i]],
                     story_points |-> sp[ord[i]],
                     issuelinks |-> LET ds == Filter(IdsByStr, deps[ord[i]])
                                    IN  [j \in 1..Len(ds) |-> BlocksLink(ds[j])],
                     sprint_start |-> sprint_start]]]

\* the story points of an issue: missing, or 2..MaxDays
StoryPoints == {Nothing} \cup {Some(n) : n \in 2..MaxDays}

\* where the base date comes from: the sprint's start date (a Friday), the start_on
\* override (a Saturday, or a string that is no date), or today (a Thursday)
BaseChoices ==
    { [sprint_start |-> Some(Isoformat(4)), start_on |-> Nothing,             today |-> 9],
      [sprint_start |-> Nothing,            start_on |-> Some(Isoformat(5)),  today |-> 9],
      [sprint_start |-> Nothing,            start_on |-> Some(NotADate),      today |-> 3],
      [sprint_start |-> Some(Isoformat(7)), start_on |-> Some(Isoformat(2)),  today |-> 9] }

\* working weekdays and holidays of a request
CalendarChoices ==
    { [working_days |-> Nothing, global_holidays |-> Nothing, holidays_by_user |-> Nothing],
      [working_days |-> Some(<<0, 1, 2, 3, 4>>),
       global_holidays |-> Some(<<Isoformat(7), NotADate>>),
       holidays_by_user |-> Nothing],
      [working_days |-> Nothing,
       global_holidays |-> Some(<<Isoformat(4)>>),
       holidays_by_user |-> Some([u \in {"X"} |-> <<Isoformat(3), Isoformat(8)>>])],
      [working_days |-> Some(<<1, 3, 5, 5>>),
       global_holidays |-> Nothing,
       holidays_by_user |-> Some([u \in {"Unassigned"} |-> <<Isoformat(5)>>])] }

\* the requests explored on sprints with dependency links
LinkedBaseChoices == {b \in BaseChoices : b.today = 9 /\ Nothing \in {b.start_on, b.sprint_start}}

LinkedCalendarChoices == {c \in CalendarChoices : c.holidays_by_user = Nothing}

\* Scenario D of the specification: one 5-day task, sprint starting on a Friday,
\* Mon-Fri working days, no holidays
ScenarioD ==
    << [key |-> <<"T", "-", "2">>,
        fields |-> [assignee |-> "X", story_points |-> Some(5), issuelinks |-> <<>>,
                    sprint_start |-> Some(Isoformat(4))]] >>

\* a sprint whose only link does not block
ScenarioRelates ==
    << [key |-> <<"T", "-", "2">>,
        fields |-> [assignee |-> "X", story_points |-> Some(2), issuelinks |-> <<>>,
                    sprint_start |-> Nothing]],
       [key |-> <<"V">>,
        fields |-> [assignee |-> "X", story_points |-> Nothing,
                    issuelinks |-> << RelatesLink(<<"T", "-", "2">>) >>,
                    sprint_start |-> Nothing]] >>

NoLinks(S) == [u \in S |-> {}]

InitCal ==
    /\ \/ \E S \in SUBSET Ids : \E ord \in Orderings(S) : \E asg \in [S -> Assignees] :
            \E sp \in [S -> StoryPoints] : \E b \in BaseChoices : \E c \in CalendarChoices :
              /\ issues = SprintOf(ord, asg, sp, NoLinks(S), b.sprint_start)
              /\ cal = Some([start_on |-> b.start_on] @@ c)
              /\ today = b.today
       \/ \E S \in SUBSET Ids : \E deps \in LinkChoices(S, MaxLinks) \ {NoLinks(S)} :
            \E ord \in Orderings(S) : \E asg \in [S -> Assignees] :
              \E sp \in [S -> StoryPoints] :
                \E b \in LinkedBaseChoices : \E c \in LinkedCalendarChoices :
                  /\ issues = SprintOf(ord, asg, sp, deps, b.sprint_start)
                  /\ cal = Some([start_on |-> b.start_on] @@ c)
                  /\ today = b.today
       \/ /\ issues \in {ScenarioD, ScenarioRelates}
          /\ cal = Some([start_on |-> Nothing, working_days |-> Nothing,
                         global_holidays |-> Nothing, holidays_by_user |-> Nothing])
          /\ today = 9
    /\ timeline = Nothing
    /\ dep_schedule = Nothing
    /\ cal_pc = "loaded"
    /\ IdleCpa
    /\ IdleAdv
    /\ IdleEta
    /\ IdleSvc
    /\ IdleExt

\* the loops of _next_working_day and _advance_working_days end only if some
\* weekday is a working day
Returns(working_days, default) == WorkingDaysSet(working_days, default) \cap (0..6) # {}

\* one request current_sprint_cpa_timeline(project_key, start_on, working_days,
\* global_holidays, holidays_by_user)
RunTimeline ==
    /\ cal_pc = "loaded"
    /\ timeline = Nothing
    /\ Returns(cal[1].working_days, {0, 1, 2, 3, 4})
    /\ timeline' = Some(current_sprint_cpa_timeline(issues, cal[1], today))
    /\ UNCHANGED <<issues, cal, today, dep_schedule, cal_pc, cpa_vars, adv_vars, eta_vars, svc_vars, ext_vars>>

\* one request schedule_current_sprint_with_dependencies(project_key, start_on,
\* working_days, global_holidays, holidays_by_user)
RunDepSchedule ==
    /\ cal_pc = "loaded"
    /\ dep_schedule = Nothing
    /\ Returns(cal[1].working_days, 0..6)
    /\ dep_schedule' = Some(schedule_current_sprint_with_dependencies(issues, cal[1], today))
    /\ UNCHANGED <<issues, cal, today, timeline, cal_pc, cpa_vars, adv_vars, eta_vars, svc_vars, ext_vars>>

NextCal == RunTimeline \/ RunDepSchedule

SpecCal == InitCal /\ [][NextCal]_vars

----------------------------------------------------------------------------
(* The ETA estimator as a state machine: a sprint is fetched and one request is
   served on it *)

\* capacity_hours_per_user of a request: absent, or 4 hours a day for X
Capacities == {Nothing, Some([u \in {"X"} |-> 4])}

\* Scenario C of the specification: T depends on U, U depends on T
ScenarioC ==
    << [key |-> <<"T", "-", "2">>,
        fields |-> [assignee |-> None, story_points |-> Nothing,
                    issuelinks |-> << BlocksLink(<<"V">>) >>, sprint_start |-> Nothing]],
       [key |-> <<"V">>,
        fields |-> [assignee |-> None, story_points |-> Nothing,
                    issuelinks |-> << BlocksLink(<<"T", "-", "2">>) >>,
                    sprint_start |-> Nothing]] >>

\* the number of links of a choice
LinkCount(S, deps) ==
    SumSeq([i \in 1..Len(IdsByStr) |->
               IF IdsByStr[i] \in S THEN Cardinality(deps[IdsByStr[i]]) ELSE 0])

InitEta ==
    /\ \/ \E S \in SUBSET Ids : \E deps \in LinkChoices(S, MaxEtaLinks) :
            \E ord \in Orderings(S) : \E asg \in [S -> Assignees] :
              \E sp \in [S -> StoryPoints] : \E issue_key \in Ids :
                \E capacity \in IF LinkCount(S, deps) <= 1 THEN Capacities ELSE {Nothing} :
                  /\ issues = SprintOf(ord, asg, sp, deps, Nothing)
                  /\ eta_req = Some([issue_key |-> issue_key,
                                     capacity_hours_per_user |-> capacity])
       \/ /\ issues = ScenarioC
          /\ eta_req = Some([issue_key |-> <<"T", "-", "2">>,
                             capacity_hours_per_user |-> Nothing])
    /\ eta = Nothing
    /\ cal = Nothing
    /\ today = 0
    /\ timeline = Nothing
    /\ dep_schedule = Nothing
    /\ cal_pc = "loaded"
    /\ IdleCpa
    /\ IdleAdv
    /\ IdleSvc
    /\ IdleExt

\* one request compute_eta_range_for_issue_current_sprint(project_key, issue_key,
\* capacity_hours_per_user)
RunEta ==
    /\ eta_req # Nothing
    /\ eta = Nothing
    /\ \E r \in compute_eta_range_for_issue_current_sprint(
                    issues, eta_req[1].issue_key, eta_req[1].capacity_hours_per_user) :
          eta' = Some(r)
    /\ UNCHANGED <<eta_req, cpa_vars, adv_vars, cal_vars, svc_vars, ext_vars>>

NextEta == RunEta

SpecEta == InitEta /\ [][NextEta]_vars

\* the date a date string of a result stands for
DateOf(str) == parse_iso_date(Some(str))[1]

\* the entries of one assignee's timeline lie one after the other
TimelineDisjoint(sched) ==
    /\ \A i \in 1..Len(sched) : DateOf(sched[i].start) <= DateOf(sched[i].end)
    /\ \A i, j \in 1..Len(sched) :
          i < j => DateOf(sched[j].start) >= DateOf(sched[i].end) + 1

\* the issues of one assignee, in the order the dependency scheduler placed them,
\* lie one after the other
DepScheduleDisjoint(r) ==
    LET e(i) == r.per_issue_schedule[r.sched[i]]
    IN  /\ \A i \in 1..Len(r.sched) : DateOf(e(i).start) <= DateOf(e(i).end)
        /\ \A i, j \in 1..Len(r.sched) :
              (i < j /\ e(i).assignee = e(j).assignee)
                  => DateOf(e(j).start) >= DateOf(e(i).end) + 1

\* C3: in both calendar modes the inclusive [start, end] intervals of the tasks of
\* one assignee are pairwise disjoint: a task scheduled later for the assignee
\* starts at least one day after the end of every task scheduled before it.
C3_SingleCapacityCalendar ==
    /\ timeline # Nothing =>
          \A u \in DOMAIN timeline[1].per_assignee_timeline :
              TimelineDisjoint(timeline[1].per_assignee_timeline[u])
    /\ (dep_schedule # Nothing /\ dep_schedule[1].error = None) =>
          DepScheduleDisjoint(dep_schedule[1])

\* both modes have laid out three issues of one assignee, one of which had to wait
\* for a dependency in the dependency mode
C3_Witness ==
    /\ timeline # Nothing
    /\ dep_schedule # Nothing
    /\ dep_schedule[1].error = None
    /\ Len(issues) = 3
    /\ \A i \in 1..Len(issues) : issues[i].fields.assignee = "X"
    /\ \E i \in 1..Len(issues) :
          dep_schedule[1].per_issue_schedule[issues[i].key].dependencies # <<>>
    /\ Len(timeline[1].per_assignee_timeline["X"]) = 3

\* the working weekdays of a timeline request: Mon-Fri unless given
TimelineWorkingDays == WorkingDaysSet(cal[1].working_days, {0, 1, 2, 3, 4})

\* the days off of an assignee: the global holidays and the assignee's own
DaysOff(u) ==
    to_date_set(cal[1].global_holidays)
        \cup to_date_set(HolidaysOfUser(cal[1].holidays_by_user, u))

\* d is the first working non-holiday day of u on or after the date `from`
FirstWorkingDayFrom(d, from, u) ==
    /\ d >= from
    /\ IsWorkingDay(d, TimelineWorkingDays, DaysOff(u))
    /\ \A e \in from..(d - 1) : ~IsWorkingDay(e, TimelineWorkingDays, DaysOff(u))

\* the keys of the issues assigned to u
IssuesOfUser(u) ==
    {issues[i].key : i \in {j \in 1..Len(issues) : AssigneeName(issues[j].fields) = u}}

\* one assignee's timeline is the sequential layout of the assignee's issues
SequentialLayout(u, sched, base) ==
    /\ {sched[i].issue : i \in 1..Len(sched)} = IssuesOfUser(u)
    /\ Len(sched) = Cardinality(IssuesOfUser(u))
    /\ \A i, j \in 1..Len(sched) : i < j => KeyLess(sched[i].issue, sched[j].issue)
    /\ \A i \in 1..Len(sched) :
          /\ FirstWorkingDayFrom(DateOf(sched[i].start),
                                 IF i = 1 THEN base ELSE DateOf(sched[i - 1].end) + 1, u)
          /\ Cardinality(WorkingDaysIn(DateOf(sched[i].start), DateOf(sched[i].end),
                                       TimelineWorkingDays, DaysOff(u))) = sched[i].days

\* C9: in current_sprint_cpa_timeline every assignee's tasks are laid out in (numeric
\* key suffix, key) order; the first starts on the first working non-holiday day on
\* or after the base date, each later one on the first working non-holiday day on or
\* after the day following the previous end; [start, end] holds exactly `days`
\* working non-holiday days of the assignee; overall_completion_date is the largest
\* end; a 5-day task starting on a Friday, Mon-Fri, ends the following Thursday.
C9_SequentialPerOwnerLayout ==
    timeline # Nothing =>
        LET r    == timeline[1]
            base == DateOf(r.start_used)
            ends == UNION {{DateOf(r.per_assignee_timeline[u][i].end) :
                              i \in 1..Len(r.per_assignee_timeline[u])} :
                                 u \in DOMAIN r.per_assignee_timeline}
        IN  /\ DOMAIN r.per_assignee_timeline =
                  {AssigneeName(issues[i].fields) : i \in 1..Len(issues)}
            /\ \A u \in DOMAIN r.per_assignee_timeline :
                  SequentialLayout(u, r.per_assignee_timeline[u], base)
            /\ ends # {} => DateOf(r.overall_completion_date) = MaxOf(ends)
            /\ issues = ScenarioD =>
                  /\ Weekday(base) = 4
                  /\ r.per_issue_completion[<<"T", "-", "2">>] = Isoformat(base + 6)
                  /\ Weekday(base + 6) = 3

\* a timeline where the base date is a day off, an assignee has three issues in an
\* order other than the tracker's, and a weekend or holiday falls inside a task
C9_Witness ==
    /\ timeline # Nothing
    /\ \E u \in DOMAIN timeline[1].per_assignee_timeline :
          LET sched == timeline[1].per_assignee_timeline[u]
          IN  /\ Len(sched) = 3
              /\ [i \in 1..3 |-> sched[i].issue] # [i \in 1..3 |-> issues[i].key]
              /\ DateOf(sched[1].start) > DateOf(timeline[1].start_used)
              /\ \E i \in 1..3 :
                    DateOf(sched[i].end) - DateOf(sched[i].start) + 1 > sched[i].days
              /\ DateOf(timeline[1].overall_completion_date) = DateOf(sched[3].end)

\* the dependency graph the estimator works on
EtaNodes == current_sprint_dependency_graph(issues).nodes

\* the dependencies of k in the graph
EtaDeps(k) == SeqToSet(EtaNodes[k].dependencies)

\* the issues reachable from S along dependencies, S included
RECURSIVE EtaReach(_, _)
EtaReach(S, n) ==
    IF n = 0 THEN S ELSE EtaReach(S \cup UNION {EtaDeps(v) : v \in S}, n - 1)

\* the issues k depends on, directly or not
EtaAncestors(k) == EtaReach(EtaDeps(k), Len(issues))

\* k lies on a dependency cycle
OnCycle(k) == k \in EtaAncestors(k)

\* the issues on a cycle with k
ComponentOf(k) == {v \in EtaAncestors(k) : k \in EtaAncestors(v)}

\* c is a closed walk along dependencies inside the component of k
ClosedCycleIn(c, k) ==
    /\ Len(c) >= 2
    /\ c[1] = c[Len(c)]
    /\ \A i \in 1..(Len(c) - 1) : c[i + 1] \in EtaDeps(c[i])
    /\ SeqToSet(c) \subseteq ComponentOf(k)

\* the cyclic issues the target of the request reaches, itself included
CyclicReachable ==
    LET t == eta_req[1].issue_key
    IN  IF t \in DOMAIN EtaNodes
        THEN {k \in {t} \cup EtaAncestors(t) : OnCycle(k)}
        ELSE {}

\* C4: for a target of the sprint that reaches a dependency cycle, the
\* estimator returns error = 'cycle_detected', no optimistic_days, and a non-empty
\* list of cycles holding, for each cyclic component reached, a closed cycle of that
\* component; T depends on U, U depends on T gives [T,U,T] or [U,T,U].
C4_CycleRejection ==
    (eta # Nothing /\ CyclicReachable # {}) =>
        LET r == eta[1]
        IN  /\ r.error = "cycle_detected"
            /\ "optimistic_days" \notin DOMAIN r
            /\ "cycles" \in DOMAIN r
            /\ r.cycles # <<>>
            /\ \A k \in CyclicReachable :
                  \E i \in 1..Len(r.cycles) : ClosedCycleIn(r.cycles[i], k)
            /\ issues = ScenarioC =>
                  \E i \in 1..Len(r.cycles) :
                      r.cycles[i] \in { << <<"T", "-", "2">>, <<"V">>, <<"T", "-", "2">> >>,
                                        << <<"V">>, <<"T", "-", "2">>, <<"V">> >> }

\* the target is the first issue of the sprint and depends on an issue that lies on
\* a cycle with a third one; the request has returned
C4_Witness ==
    /\ eta # Nothing
    /\ Len(issues) = 3
    /\ eta_req[1].issue_key = issues[1].key
    /\ ~OnCycle(eta_req[1].issue_key)
    /\ CyclicReachable # {}
    /\ eta[1].error = "cycle_detected"

\* C5: every successful result of the estimator (the graph is then acyclic) has
\* pessimistic_days >= optimistic_days.
C5_EtaOrdering ==
    (eta # Nothing /\ eta[1].error = None) =>
        /\ \A k \in DOMAIN EtaNodes : ~OnCycle(k)
        /\ eta[1].pessimistic_days >= eta[1].optimistic_days

\* the finish of the target in the pessimistic schedule of a result
PessimisticFinish(r) ==
    LET ps == r.pessimistic_schedule
    IN  ps[CHOOSE i \in 1..Len(ps) : ps[i].id = r.issue].eft

\* a successful result whose pessimistic schedule finishes the target before the
\* optimistic one does
C5_Witness ==
    /\ eta # Nothing
    /\ eta[1].error = None
    /\ PessimisticFinish(eta[1]) < eta[1].optimistic_days
    /\ eta[1].pessimistic_days = eta[1].optimistic_days

----------------------------------------------------------------------------
(* Claims on unassigned work, cycles, missing ids and the base date *)

\* the latest finish of the dependencies of u in a result, 0 when it has none
LatestDepFinish(res, u) ==
    MaxFinish(DepsIn(project, u), [d \in DepsIn(project, u) |-> Entry(res, d).EF])

\* C11: a task without an owner meets no resource contention: in the
\* resource-constrained schedule of an acyclic project every task whose assignee is
\* None starts at the finish of its latest dependency, at time 0 if it has none (so
\* two unassigned tasks with no dependency path between them may run concurrently).
C11_NoContentionUnassigned ==
    (RcpspDone /\ Acyclic(project)) =>
        \A i \in 1..Len(cpa_rcpsp.tasks) :
            cpa_rcpsp.tasks[i].assignee = None
                => cpa_rcpsp.tasks[i].ES = LatestDepFinish(cpa_rcpsp, cpa_rcpsp.tasks[i].id)

\* the ids of the entries of a result, in output order
ResultIds(res) == [i \in 1..Len(res.tasks) |-> res.tasks[i].id]

\* C12: on a project whose dependencies contain a cycle, run_cpa_calc and
\* _run_pert_rcpsp_calc return a result whose tasks list holds every input task
\* exactly once, in the input order.
C12_DegradedModeOnCycles ==
    ~Acyclic(project) =>
        /\ PlainDone => ResultIds(cpa_plain) = NodeIds(project)
        /\ RcpspDone => ResultIds(cpa_rcpsp) = NodeIds(project)

\* _run_pert_rcpsp_calc has returned for three tasks, two of which depend on each
\* other while the third, listed last, is free of the cycle
C12_Witness ==
    /\ RcpspDone
    /\ Len(project) = 3
    /\ ~Acyclic(project)
    /\ project[3].id \notin AncestorsOf(project, project[3].id)
    /\ DepsIn(project, project[3].id) = {}
    /\ ResultIds(cpa_rcpsp) = NodeIds(project)

\* the dependency graph of the fetched sprint has a cycle
SprintCyclic == \E k \in DOMAIN EtaNodes : OnCycle(k)

\* C13: schedule_current_sprint_with_dependencies returns a structured result,
\* without raising, when the dependency graph of the sprint contains a cycle.
C13_NeverRaisesOnCycles ==
    (dep_schedule # Nothing /\ SprintCyclic) =>
        /\ dep_schedule[1].error = None
        /\ "per_issue_schedule" \in DOMAIN dep_schedule[1]

----------------------------------------------------------------------------
(* Single-issue calendar queries: estimate_issue_completion_in_current_sprint *)
(* (sprint_timeline.py) and expected_completion_for_issue_in_current_sprint  *)
(* (sprint_dependency.py)                                                    *)

MaxQueryLinks == 1

\* str.lower() on the status vocabulary of the tracker
Lower(str) ==
    CASE str = "Done" -> "done"
      [] str = "To Do" -> "to do"
      [] OTHER -> str

\* is_done = (status_cat_key == "done") or (status_name.lower() == "done"), with
\* status_obj = fields.get("status") or {}
IsDone(fields) ==
    IF "status" \notin DOMAIN fields THEN FALSE
    ELSE \/ Lower(fields.status.category_key) = "done"
         \/ Lower(fields.status.name) = "done"

\* tasks_for_assignee before sorting: the issues of the target's assignee, in issue
\* order
TasksForAssignee(iss, target_assignee) ==
    LET mine == SelectSeq(iss, LAMBDA i : AssigneeName(i.fields) = target_assignee)
    IN  [i \in 1..Len(mine) |->
            [key |-> mine[i].key,
             assignee |-> target_assignee,
             estimated_days |-> DurationWhole(get_task_duration(mine[i].fields)),
             is_done |-> IsDone(mine[i].fields)]]

\* x.isoformat() if x else None
IsoformatOpt(d) == IF d = Nothing THEN Nothing ELSE Some(Isoformat(d[1]))

estimate_issue_completion_in_current_sprint(iss, issue_key, params, now) ==
    LET sprint_start == ExtractSprintStart(iss)
        base_start   == BaseStart(iss, params.start_on, now)
        wd           == WorkingDaysSet(params.working_days, {0, 1, 2, 3, 4})
        global       == to_date_set(params.global_holidays)
        found        == {i \in 1..Len(iss) : iss[i].key = issue_key}
    IN  IF found = {}
        THEN [issue_key |-> issue_key,
              error |-> "issue not found in current sprint",
              sprint_start |-> IsoformatOpt(sprint_start)]
        ELSE LET target_issue    == iss[MinOf(found)]
                 target_assignee == AssigneeName(target_issue.fields)
                 tasks     == SortedQueue(TasksForAssignee(iss, target_assignee),
                                          target_assignee)
                 holidays  == to_date_set(HolidaysOfUser(params.holidays_by_user,
                                                         target_assignee)) \cup global
                 pending_tasks == SelectSeq(tasks, LAMBDA t : ~t.is_done)
                 tl        == LayOut(pending_tasks, 1, base_start, target_assignee, wd,
                                     holidays, <<>>)
                 hit       == {j \in 1..Len(tl) : tl[j].issue = issue_key}
             IN  [issue_key |-> issue_key,
                  assignee |-> target_assignee,
                  estimated_completion_date |->
                      IF hit = {} THEN Nothing ELSE Some(tl[MinOf(hit)].end),
                  timeline |-> IF hit = {} THEN Nothing ELSE Some(tl[MinOf(hit)]),
                  sprint_start |-> Some(Isoformat(base_start))]

\* raised is None when the call returned, else the exception that left it
expected_completion_for_issue_in_current_sprint(iss, issue_key, params, now) ==
    LET sched == schedule_current_sprint_with_dependencies(iss, params, now)
    IN  IF sched.error # None THEN [raised |-> sched.error]
        ELSE LET per_issue == sched.per_issue_schedule
                 entry     == IF issue_key \in DOMAIN per_issue
                              THEN Some(per_issue[issue_key]) ELSE Nothing
             IN  [raised |-> None,
                  issue_key |-> issue_key,
                  estimated_completion_date |->
                      IF entry # Nothing THEN Some(entry[1].end) ELSE Nothing,
                  schedule_entry |-> entry,
                  overall_completion_date |-> sched.overall_completion_date,
                  sprint_start |-> sched.start_used]

\* the tracker's status object of a finished issue
DoneStatus == [name |-> "Done", category_key |-> "done"]

\* the sprint with the issues of done marked finished; the others carry no status
WithStatus(iss, done) ==
    [i \in 1..Len(iss) |->
        IF iss[i].key \in done
        THEN [iss[i] EXCEPT !.fields = [status |-> DoneStatus] @@ @]
        ELSE iss[i]]

\* the requests of the single-issue queries: a sprint starting on a Friday with the
\* default calendar, or a start_on override with holidays
QueryEnvs ==
    { [sprint_start |-> Some(Isoformat(4)), today |-> 9,
       cal |-> [start_on |-> Nothing, working_days |-> Nothing,
                global_holidays |-> Nothing, holidays_by_user |-> Nothing]],
      [sprint_start |-> Nothing, today |-> 9,
       cal |-> [start_on |-> Some(Isoformat(5)), working_days |-> Some(<<0, 1, 2, 3, 4>>),
                global_holidays |-> Some(<<Isoformat(7), NotADate>>),
                holidays_by_user |-> Some([u \in {"X"} |-> <<Isoformat(8)>>])]] }

InitQuery ==
    /\ \E S \in SUBSET Ids : \E ord \in Orderings(S) : \E asg \in [S -> Assignees] :
         \E sp \in [S -> StoryPoints] : \E e \in QueryEnvs :
           /\ \/ \E done \in {D \in SUBSET S : Cardinality(D) <= 1} :
                   issues = WithStatus(SprintOf(ord, asg, sp, NoLinks(S), e.sprint_start),
                                       done)
              \/ /\ e.sprint_start # Nothing
                 /\ \E deps \in LinkChoices(S, MaxQueryLinks) \ {NoLinks(S)} :
                      issues = SprintOf(ord, asg, sp, deps, e.sprint_start)
           /\ cal = Some(e.cal)
           /\ today = e.today
    /\ query_key \in {Some(k) : k \in Ids}
    /\ timeline = Nothing
    /\ dep_schedule = Nothing
    /\ cal_pc = "loaded"
    /\ expected = Nothing
    /\ estimate = Nothing
    /\ answer = Nothing
    /\ endpoint = Nothing
    /\ IdleCpa
    /\ IdleAdv
    /\ IdleEta
    /\ IdleExt

\* one request estimate_issue_completion_in_current_sprint(project_key, issue_key, ...)
RunEstimateIssue ==
    /\ cal_pc = "loaded"
    /\ query_key # Nothing
    /\ estimate = Nothing
    /\ Returns(cal[1].working_days, {0, 1, 2, 3, 4})
    /\ estimate' = Some(estimate_issue_completion_in_current_sprint(
                            issues, query_key[1], cal[1], today))
    /\ UNCHANGED <<query_key, expected, answer, endpoint, cpa_vars, adv_vars, cal_vars,
                   eta_vars, ext_vars>>

\* one request expected_completion_for_issue_in_current_sprint(project_key, issue_key, ...)
RunExpectedCompletion ==
    /\ cal_pc = "loaded"
    /\ query_key # Nothing
    /\ expected = Nothing
    /\ Returns(cal[1].working_days, 0..6)
    /\ expected' = Some(expected_completion_for_issue_in_current_sprint(
                            issues, query_key[1], cal[1], today))
    /\ UNCHANGED <<query_key, estimate, answer, endpoint, cpa_vars, adv_vars, cal_vars,
                   eta_vars, ext_vars>>

NextQuery == RunEstimateIssue \/ RunExpectedCompletion

SpecQuery == InitQuery /\ [][NextQuery]_vars

\* the keys of the fetched sprint
SprintKeys == {issues[i].key : i \in 1..Len(issues)}

\* C14: a single-issue query whose issue id is not in the sprint returns, without
\* raising, a result that carries an error field saying the issue was not found.
C14_StructuredNotFound ==
    (query_key # Nothing /\ query_key[1] \notin SprintKeys) =>
        /\ estimate # Nothing =>
              /\ "error" \in DOMAIN estimate[1]
              /\ estimate[1].error = "issue not found in current sprint"
        /\ expected # Nothing =>
              /\ expected[1].raised = None
              /\ "error" \in DOMAIN expected[1]

\* the base date the specification prescribes: the start_on override when one is
\* given as a date, else the sprint's start when the tracker reports one, else today
PrescribedBase ==
    LET override == parse_iso_date(cal[1].start_on)
        sprint   == ExtractSprintStart(issues)
    IN  IF override # Nothing THEN override[1]
        ELSE IF sprint # Nothing THEN sprint[1]
        ELSE today

\* C15: both calendar schedulers start from the start_on override whenever one is
\* given, from the sprint's start only without an override, and from today only
\* when neither exists.
C15_BaseDatePriority ==
    /\ timeline # Nothing => timeline[1].start_used = Isoformat(PrescribedBase)
    /\ (dep_schedule # Nothing /\ dep_schedule[1].error = None)
          => dep_schedule[1].start_used = Isoformat(PrescribedBase)

----------------------------------------------------------------------------
(* Callers of the ETA estimator: answer_when_issue_complete_range               *)
(* (backend/tools/jira/cpa_tools.py) and GET /jira/issue-eta-graph              *)
(* (backend/main.py)                                                            *)

\* '-' in issue_key
HasDash(issue_key) == Contains(issue_key, "-")

\* the results answer_when_issue_complete_range can return; human is the pair of days
\* its sentence is formatted from
answer_when_issue_complete_range(iss, issue_key, capacity_hours_per_user, workdays) ==
    IF ~HasDash(issue_key)
    THEN {[error |-> "Please provide a valid Jira issue key"]}
    ELSE {IF result.error # None THEN result
          ELSE [human |-> <<result.optimistic_days, result.pessimistic_days>>,
                workdays |-> workdays] @@ result :
             result \in compute_eta_range_for_issue_current_sprint(
                            iss, issue_key, capacity_hours_per_user)}

\* ancestors_of(target) of the endpoint: parents.get(target, []) followed upwards
ancestors_of(nodes, target) ==
    AncDfs(nodes, {}, IF target \in DOMAIN nodes THEN nodes[target].dependencies ELSE <<>>, 1)

\* sub_nodes: the target and its ancestors, with the dependencies among them
SubNodes(nodes, issue_key) ==
    LET anc == ancestors_of(nodes, issue_key)
    IN  [k \in {n \in DOMAIN nodes : n = issue_key \/ n \in anc} |->
            [assignee |-> nodes[k].assignee,
             duration_days |-> DurOf(nodes, k),
             dependencies |-> SelectSeq(nodes[k].dependencies,
                                        LAMBDA d : d = issue_key \/ d \in anc)]]

\* eta.get(field, default)
EtaGet(r, field, default) == IF field \in DOMAIN r THEN r[field] ELSE default

\* the responses of GET /jira/issue-eta-graph: status 422 for a key without '-',
\* else status 200 with the body built from the estimator's result
jira_issue_eta_graph(iss, issue_key) ==
    IF ~HasDash(issue_key) THEN {[status |-> 422]}
    ELSE LET nodes == current_sprint_dependency_graph(iss).nodes
         IN  {[status |-> 200,
               issue |-> issue_key,
               optimistic_days |-> EtaGet(r, "optimistic_days", 0),
               pessimistic_days |->
                   EtaGet(r, "pessimistic_days", EtaGet(r, "optimistic_days", 0)),
               optimistic_schedule |-> EtaGet(r, "optimistic_schedule", <<>>),
               pessimistic_schedule |-> EtaGet(r, "pessimistic_schedule", <<>>),
               optimistic_critical_path |-> EtaGet(r, "optimistic_critical_path", <<>>),
               pessimistic_blockers |-> EtaGet(r, "pessimistic_blockers", <<>>),
               nodes |-> SubNodes(nodes, issue_key)] :
                r \in compute_eta_range_for_issue_current_sprint(iss, issue_key, Nothing)}

\* sprints of one-day issues with at most MaxLinks links, and a request for one key
InitWrap ==
    /\ \E S \in SUBSET Ids : \E deps \in LinkChoices(S, MaxLinks) :
         \E ord \in Orderings(S) : \E asg \in [S -> Assignees] :
           \E issue_key \in Ids : \E capacity \in Capacities :
             /\ issues = SprintOf(ord, asg, [u \in S |-> Nothing], deps, Nothing)
             /\ eta_req = Some([issue_key |-> issue_key,
                                capacity_hours_per_user |-> capacity])
    /\ eta = Nothing
    /\ cal = Nothing
    /\ today = 0
    /\ timeline = Nothing
    /\ dep_schedule = Nothing
    /\ cal_pc = "loaded"
    /\ IdleCpa
    /\ IdleAdv
    /\ IdleSvc
    /\ IdleExt

\* one call answer_when_issue_complete_range(issue_key, capacity_hours_per_user)
RunAnswer ==
    /\ eta_req # Nothing
    /\ answer = Nothing
    /\ \E r \in answer_when_issue_complete_range(
                    issues, eta_req[1].issue_key, eta_req[1].capacity_hours_per_user, TRUE) :
          answer' = Some(r)
    /\ UNCHANGED <<query_key, expected, estimate, endpoint, cpa_vars, adv_vars, cal_vars,
                   eta_vars, ext_vars>>

\* one request GET /jira/issue-eta-graph?issue_key=...
RunEndpoint ==
    /\ eta_req # Nothing
    /\ endpoint = Nothing
    /\ \E r \in jira_issue_eta_graph(issues, eta_req[1].issue_key) :
          endpoint' = Some(r)
    /\ UNCHANGED <<query_key, expected, estimate, answer, cpa_vars, adv_vars, cal_vars,
                   eta_vars, ext_vars>>

NextWrap == RunAnswer \/ RunEndpoint

SpecWrap == InitWrap /\ [][NextWrap]_vars

----------------------------------------------------------------------------
(* The ETA estimator and the CPA engine on one graph *)

\* the task list of the sprint's dependency graph: one task per node, in node order,
\* with the node's whole-day duration, assignee and in-sprint dependencies
GraphProject(iss) ==
    LET graph == current_sprint_dependency_graph(iss)
    IN  [i \in 1..Len(graph.order) |->
            [id |-> graph.order[i],
             estimate_days |-> graph.nodes[graph.order[i]].duration_days,
             assignee |-> graph.nodes[graph.order[i]].assignee,
             dependencies |-> graph.nodes[graph.order[i]].dependencies]]

\* a sprint with at most MaxQueryLinks links, an ETA request for one of its keys,
\* and the sprint's graph loaded as a project of the CPA engine
InitCompare ==
    /\ \E S \in SUBSET Ids : \E deps \in LinkChoices(S, MaxQueryLinks) :
         \E ord \in Orderings(S) : \E asg \in [S -> Assignees] :
           \E sp \in [S -> StoryPoints] : \E issue_key \in Ids :
             /\ issues = SprintOf(ord, asg, sp, deps, Nothing)
             /\ eta_req = Some([issue_key |-> issue_key,
                                capacity_hours_per_user |-> Nothing])
    /\ project = GraphProject(issues)
    /\ cpa_plain = NoResult
    /\ cpa_rcpsp = NoResult
    /\ cpa_pc = "loaded"
    /\ eta = Nothing
    /\ cal = Nothing
    /\ today = 0
    /\ timeline = Nothing
    /\ dep_schedule = Nothing
    /\ cal_pc = "loaded"
    /\ IdleAdv
    /\ IdleSvc
    /\ IdleExt

NextCompare == RunEta \/ RunPertRcpspCalc

SpecCompare == InitCompare /\ [][NextCompare]_vars

----------------------------------------------------------------------------
(* Claims on determinism, error pass-through and the relation of the schedulers *)

\* every result the estimator can return on the request of this state, over all the
\* ways the ready set can be iterated
EtaOutcomes ==
    compute_eta_range_for_issue_current_sprint(
        issues, eta_req[1].issue_key, eta_req[1].capacity_hours_per_user)

\* C16: for a fixed graph, target and capacities the estimator's optimistic_days,
\* pessimistic_days and both schedules are the same whichever way ties among ready
\* tasks are resolved.
C16_EtaDeterminism ==
    (eta # Nothing /\ eta[1].error = None) =>
        \A r \in EtaOutcomes :
            /\ r.optimistic_days = eta[1].optimistic_days
            /\ r.pessimistic_days = eta[1].pessimistic_days
            /\ r.optimistic_schedule = eta[1].optimistic_schedule
            /\ r.pessimistic_schedule = eta[1].pessimistic_schedule

\* the task list p in the order ord of its positions
Permuted(p, ord) == [i \in 1..Len(p) |-> p[ord[i]]]

\* ES and EF of every task of a result, by id
TimesById(res) ==
    [u \in {res.tasks[i].id : i \in 1..Len(res.tasks)} |->
        <<Entry(res, u).ES, Entry(res, u).EF>>]

\* C17: tasks that are ready together and compete for one owner are scheduled in
\* key order, so the ES and EF of every task of an acyclic project are the same
\* for every permutation of the input task list.
C17_PermutationInvariance ==
    (RcpspDone /\ Acyclic(project)) =>
        \A ord \in Orderings(1..Len(project)) :
            TimesById(run_pert_rcpsp_calc(Permuted(project, ord))) = TimesById(cpa_rcpsp)

\* the error results the estimator returns on the request of this state
EtaErrors == {r \in EtaOutcomes : r.error # None}

\* C18: when the estimator returns an error result, answer_when_issue_complete_range
\* and the /jira/issue-eta-graph endpoint return that error and report no
\* optimistic_days or pessimistic_days.
C18_ErrorPassThrough ==
    (HasDash(eta_req[1].issue_key) /\ EtaErrors # {}) =>
        /\ answer # Nothing =>
              /\ answer[1] \in EtaErrors
              /\ "optimistic_days" \notin DOMAIN answer[1]
        /\ endpoint # Nothing =>
              /\ "error" \in DOMAIN endpoint[1]
              /\ "optimistic_days" \notin DOMAIN endpoint[1]
              /\ "pessimistic_days" \notin DOMAIN endpoint[1]

\* the largest plain-PERT finish of a result, 0 for an empty project
MaxEFPlain(res) ==
    MaxFinish({res.tasks[i].id : i \in 1..Len(res.tasks)},
              [u \in {res.tasks[i].id : i \in 1..Len(res.tasks)} |-> Entry(res, u).EF_plain])

\* C19: on an acyclic project every task of the resource-constrained schedule has
\* ES >= ES_plain and EF >= EF_plain, and project_duration is at least the largest
\* EF_plain.
C19_PlainPertLowerBound ==
    (RcpspDone /\ Acyclic(project)) =>
        /\ \A i \in 1..Len(cpa_rcpsp.tasks) :
              /\ cpa_rcpsp.tasks[i].ES >= cpa_rcpsp.tasks[i].ES_plain
              /\ cpa_rcpsp.tasks[i].EF >= cpa_rcpsp.tasks[i].EF_plain
        /\ cpa_rcpsp.project_duration >= MaxEFPlain(cpa_rcpsp)

\* an acyclic project where contention delays a task that has a dependency, and
\* the project, beyond their plain-PERT times
C19_Witness ==
    /\ RcpspDone
    /\ Acyclic(project)
    /\ \E i \in 1..Len(cpa_rcpsp.tasks) :
          /\ DepsIn(project, cpa_rcpsp.tasks[i].id) # {}
          /\ cpa_rcpsp.tasks[i].ES_plain > 0
          /\ cpa_rcpsp.tasks[i].ES > cpa_rcpsp.tasks[i].ES_plain
    /\ cpa_rcpsp.project_duration > MaxEFPlain(cpa_rcpsp)

\* C20: on an acyclic graph with whole durations >= 1 the optimistic pass of the
\* estimator gives the target the finish time that the forward pass of
\* _run_pert_rcpsp_calc gives that task on the same graph.
C20_OptimisticEqualsRcpsp ==
    (eta # Nothing /\ eta[1].error = None /\ RcpspDone) =>
        eta[1].optimistic_days = Entry(cpa_rcpsp, eta_req[1].issue_key).EF

----------------------------------------------------------------------------
(* Claims on the parts of the schedulers: start rule, orderer, cycle detector, *)
(* selection rule, backward windows, ancestors, cache                          *)

\* the finish of the task scheduled last before position k of the scheduling log on
\* the assignee of the task at k, 0 when there is none
PrevOwnerFinish(res, k) ==
    LET own  == Entry(res, res.sched[k]).assignee
        prev == {j \in 1..(k - 1) : Entry(res, res.sched[j]).assignee = own}
    IN  IF prev = {} THEN 0 ELSE Entry(res, res.sched[MaxOf(prev)]).EF

\* C21: on an acyclic project the finish events of _run_pert_rcpsp_calc are popped
\* in non-decreasing time order, every task starts at the larger of its latest
\* dependency finish and the finish of the task scheduled just before it on its
\* assignee, EF = ES + duration, and project_duration is the largest EF.
C21_RcpspStartRule ==
    (RcpspDone /\ Acyclic(project)) =>
        /\ \A i, j \in 1..Len(cpa_rcpsp.pops) :
              i < j => cpa_rcpsp.pops[i][1] <= cpa_rcpsp.pops[j][1]
        /\ SeqToSet(cpa_rcpsp.sched) = TaskIds(project)
        /\ \A k \in 1..Len(cpa_rcpsp.sched) :
              LET t == Entry(cpa_rcpsp, cpa_rcpsp.sched[k])
              IN  /\ t.ES = Max2(LatestDepFinish(cpa_rcpsp, t.id), PrevOwnerFinish(cpa_rcpsp, k))
                  /\ t.EF = t.ES + t.duration
        /\ cpa_rcpsp.project_duration =
              MaxFinish(TaskIds(project), [u \in TaskIds(project) |-> Entry(cpa_rcpsp, u).EF])

\* an acyclic project where a task whose dependency has finished still waits for
\* its assignee, who finishes another task later
C21_Witness ==
    /\ RcpspDone
    /\ Acyclic(project)
    /\ \E k \in 1..Len(cpa_rcpsp.sched) :
          /\ LatestDepFinish(cpa_rcpsp, cpa_rcpsp.sched[k]) > 0
          /\ PrevOwnerFinish(cpa_rcpsp, k) > LatestDepFinish(cpa_rcpsp, cpa_rcpsp.sched[k])
          /\ Entry(cpa_rcpsp, cpa_rcpsp.sched[k]).ES = PrevOwnerFinish(cpa_rcpsp, k)

\* what _topo_sort owes on the project of this state: a dependency-respecting
\* permutation of the tasks when it is acyclic, the input order when it is not
TopoOrderOk(order) ==
    IF Acyclic(project)
    THEN /\ Len(order) = Len(project)
         /\ SeqToSet(order) = TaskIds(project)
         /\ DepsFirst(project, order)
    ELSE order = NodeIds(project)

\* C22: _topo_sort (both copies) returns on an acyclic graph a permutation of the
\* nodes with every dependency before its dependents, and on a graph with a cycle
\* exactly the input order.  The output tasks of both engines are in that order.
C22_TopologicalOrderer ==
    /\ PlainDone => TopoOrderOk(ResultIds(cpa_plain))
    /\ RcpspDone => TopoOrderOk(ResultIds(cpa_rcpsp))

\* an acyclic project of three tasks, given with a dependent before its dependency,
\* that the orderer had to reorder
C22_Witness ==
    /\ PlainDone
    /\ Acyclic(project)
    /\ Len(project) = 3
    /\ ~DepsFirst(project, NodeIds(project))
    /\ ResultIds(cpa_plain) # NodeIds(project)
    /\ DepsFirst(project, ResultIds(cpa_plain))

\* c is a closed path along the dependencies of the graph
ClosedPath(c) ==
    /\ Len(c) >= 2
    /\ c[1] = c[Len(c)]
    /\ \A i \in 1..Len(c) : c[i] \in DOMAIN EtaNodes
    /\ \A i \in 1..(Len(c) - 1) : c[i + 1] \in EtaDeps(c[i])

\* C23: on the graph of a request whose target is in the sprint, _detect_cycles
\* returns the empty list exactly when no issue of the graph depends on itself,
\* directly or not (the estimator then goes on to a result without error, otherwise
\* it answers 'cycle_detected' with the list); every cycle of the list is a closed
\* path: its first and last ids are equal and each id has the next one among its
\* dependencies.
C23_CycleDetector ==
    (eta # Nothing /\ eta_req[1].issue_key \in DOMAIN EtaNodes) =>
        LET cycles == detect_cycles(EtaNodes, current_sprint_dependency_graph(issues).order)
        IN  /\ (cycles = <<>>) <=> (\A k \in DOMAIN EtaNodes : ~OnCycle(k))
            /\ \A i \in 1..Len(cycles) : ClosedPath(cycles[i])
            /\ IF cycles = <<>>
               THEN eta[1].error # "cycle_detected"
               ELSE eta[1].error = "cycle_detected" /\ eta[1].cycles = cycles

\* a request on a sprint whose three issues form one cycle, entered at its first
\* issue, has been answered with that cycle of four ids
C23_Witness ==
    /\ eta # Nothing
    /\ eta[1].error = "cycle_detected"
    /\ \E i \in 1..Len(eta[1].cycles) :
          /\ Len(eta[1].cycles[i]) = 4
          /\ eta[1].cycles[i][1] = issues[1].key

\* the nodes the pessimistic pass of the request works on, durations scaled
PessNodes ==
    ApplyCapacity(current_sprint_dependency_graph(issues),
                  eta_req[1].capacity_hours_per_user).nodes

\* the issues placed before step k of the pessimistic schedule ps
PlacedBefore(ps, k) == {ps[j].id : j \in 1..(k - 1)}

\* the issues ready at step k: not placed, every dependency placed
ReadyAt(nodes, ps, k) ==
    {v \in DOMAIN nodes \ PlacedBefore(ps, k) :
        SeqToSet(nodes[v].dependencies) \subseteq PlacedBefore(ps, k)}

\* the finish of the issue placed last for the owner of v before step k, 0 if none
OwnerAvailableAt(nodes, ps, k, v) ==
    LET mine == {j \in 1..(k - 1) : UserOf(nodes, ps[j].id) = UserOf(nodes, v)}
    IN  IF mine = {} THEN 0 ELSE ps[MaxOf(mine)].eft

\* the latest finish of the dependencies of a ready issue v at step k, 0 if none
DepsFinishAt(nodes, ps, k, v) ==
    LET fin == {ps[j].eft : j \in {i \in 1..(k - 1) : ps[i].id \in SeqToSet(nodes[v].dependencies)}}
    IN  IF fin = {} THEN 0 ELSE MaxOf(fin)

\* the feasible start of a ready issue v at step k
FeasibleStartAt(nodes, ps, k, v) ==
    Max2(OwnerAvailableAt(nodes, ps, k, v), DepsFinishAt(nodes, ps, k, v))

\* the ready issues of the earliest feasible start at step k
TiedAt(nodes, ps, k) ==
    LET ready == ReadyAt(nodes, ps, k)
        start == [v \in ready |-> FeasibleStartAt(nodes, ps, k, v)]
    IN  {v \in ready : \A w \in ready : start[v] <= start[w]}

\* the non-ancestors of the target among them if there are any, else all of them
PreferredOf(tied, ancestors) ==
    IF tied \ ancestors # {} THEN tied \ ancestors ELSE tied

\* C24: in every successful result, the issue at each position k of
\* pessimistic_schedule was ready at that step, starts at its feasible start
\* max(owner availability, latest dependency finish), which is the minimum over
\* the ready issues; it is a non-ancestor of the target whenever a non-ancestor is
\* tied at that minimum; and no issue of the preferred pool has a greater duration.
C24_PessimisticSelection ==
    (eta # Nothing /\ eta[1].error = None) =>
        LET ps    == eta[1].pessimistic_schedule
            nodes == PessNodes
            anc   == EtaAncestors(eta_req[1].issue_key)
        IN  \A k \in 1..Len(ps) :
               LET tied == TiedAt(nodes, ps, k)
                   pool == PreferredOf(tied, anc)
               IN  /\ ps[k].id \in tied
                   /\ ps[k].est = FeasibleStartAt(nodes, ps, k, ps[k].id)
                   /\ ps[k].eft = ps[k].est + ps[k].duration
                   /\ ps[k].duration = DurOf(nodes, ps[k].id)
                   /\ ps[k].id \in pool
                   /\ \A v \in pool : DurOf(nodes, v) <= ps[k].duration

\* a successful result with a step at which an ancestor of the target of two days
\* and a non-ancestor of one day were tied at the earliest start, and the
\* non-ancestor was placed
C24_Witness ==
    /\ eta # Nothing
    /\ eta[1].error = None
    /\ LET ps    == eta[1].pessimistic_schedule
           nodes == PessNodes
           anc   == EtaAncestors(eta_req[1].issue_key)
       IN  \E k \in 1..Len(ps) :
              /\ ps[k].id \notin anc
              /\ ps[k].duration = 1
              /\ \E v \in TiedAt(nodes, ps, k) \cap anc : DurOf(nodes, v) = 2

----------------------------------------------------------------------------
(* An ETA request followed step by step, and a later request on the same records *)

MaxStepLinks == 2

\* the sprints of InitEta with at most MaxStepLinks links, records in key order
InitSteps ==
    /\ \E S \in SUBSET Ids : \E deps \in LinkChoices(S, MaxStepLinks) :
         \E asg \in [S -> Assignees] :
           \E sp \in [S -> StoryPoints] : \E issue_key \in Ids :
             \E capacity \in IF LinkCount(S, deps) <= 1 THEN Capacities ELSE {Nothing} :
               /\ issues = SprintOf(SortedStr(S), asg, sp, deps, Nothing)
               /\ eta_req = Some([issue_key |-> issue_key,
                                  capacity_hours_per_user |-> capacity])
    /\ eta = Nothing
    /\ cal = Nothing
    /\ today = 0
    /\ timeline = Nothing
    /\ dep_schedule = Nothing
    /\ cal_pc = "loaded"
    /\ IdleCpa
    /\ IdleAdv
    /\ IdleSvc
    /\ IdleExt

\* graph = current_sprint_dependency_graph(project_key); if issue_key not in nodes:
\* return the error
StepBuild ==
    /\ eta_pc = "idle"
    /\ eta_req # Nothing
    /\ eta = Nothing
    /\ LET graph == GraphForRequest(issues, eta_graph)
       IN  /\ eta_graph' = Some(graph)
           /\ IF eta_req[1].issue_key \notin DOMAIN graph.nodes
              THEN /\ eta' = Some([issue |-> eta_req[1].issue_key,
                                   error |-> "issue not found in current sprint"])
                   /\ eta_pc' = "returned"
              ELSE /\ eta' = eta
                   /\ eta_pc' = "built"
    /\ UNCHANGED <<rm_vars, eta_req, pess_st, eta_prev, jira_vars, cpa_vars, adv_vars, cal_vars,
                   svc_vars>>

\* if capacity_hours_per_user: nd["duration_days"] = ... on the nodes of the graph
StepScale ==
    /\ eta_pc = "built"
    /\ eta_graph' = Some(ApplyCapacity(eta_graph[1], eta_req[1].capacity_hours_per_user))
    /\ eta_pc' = "scaled"
    /\ UNCHANGED <<rm_vars, eta_vars, pess_st, eta_prev, jira_vars, cpa_vars, adv_vars, cal_vars,
                   svc_vars>>

\* cycles = _detect_cycles(nodes): return the error, or go on to the loop
StepCycles ==
    /\ eta_pc = "scaled"
    /\ LET nodes  == eta_graph[1].nodes
           cycles == detect_cycles(nodes, eta_graph[1].order)
       IN  IF cycles # <<>>
           THEN /\ eta' = Some([issue |-> eta_req[1].issue_key, error |-> "cycle_detected",
                                cycles |-> cycles])
                /\ eta_pc' = "returned"
                /\ pess_st' = pess_st
           ELSE /\ pess_st' = Some(PessInit(nodes))
                /\ eta_pc' = "loop"
                /\ eta' = eta
    /\ UNCHANGED <<rm_vars, eta_req, eta_graph, eta_prev, jira_vars, cpa_vars, adv_vars, cal_vars,
                   svc_vars>>

\* one turn of `while ready`
StepTurn ==
    /\ eta_pc = "loop"
    /\ pess_st[1].ready # {}
    /\ LET nodes == eta_graph[1].nodes
           ancestors == compute_ancestors_of_target(nodes, eta_req[1].issue_key)
       IN  \E chosen \in Choices(nodes, Pool(nodes, ancestors, pess_st[1])) :
               pess_st' = Some(PessStep(eta_graph[1], pess_st[1], chosen))
    /\ UNCHANGED <<rm_vars, eta_vars, eta_pc, eta_graph, eta_prev, jira_vars, cpa_vars, adv_vars,
                   cal_vars, svc_vars>>

\* `ready` is empty: the loop is left and the result is built and returned
StepReport ==
    /\ eta_pc = "loop"
    /\ pess_st[1].ready = {}
    /\ eta' = Some(EtaReport(eta_graph[1], eta_req[1].issue_key, pess_st[1]))
    /\ eta_pc' = "returned"
    /\ UNCHANGED <<rm_vars, eta_req, eta_graph, pess_st, eta_prev, jira_vars, cpa_vars, adv_vars,
                   cal_vars, svc_vars>>

\* after a request with capacities, a request for the same issue without capacities
StepAgain ==
    /\ eta_pc = "returned"
    /\ eta_prev = Nothing
    /\ eta_req[1].capacity_hours_per_user # Nothing
    /\ eta_prev' = eta
    /\ eta' = Nothing
    /\ eta_req' = Some([issue_key |-> eta_req[1].issue_key,
                        capacity_hours_per_user |-> Nothing])
    /\ pess_st' = Nothing
    /\ eta_pc' = "idle"
    /\ UNCHANGED <<rm_vars, eta_graph, jira_vars, cpa_vars, adv_vars, cal_vars, svc_vars>>

NextSteps == StepBuild \/ StepScale \/ StepCycles \/ StepTurn \/ StepReport \/ StepAgain

SpecSteps == InitSteps /\ [][NextSteps]_vars

\* the steps of a request up to the end of its loop
LoopSteps == StepBuild \/ StepScale \/ StepCycles \/ StepTurn

\* the request is a sequential computation: it goes on as long as it has a step to take
SpecStepsLive == SpecSteps /\ WF_vars(LoopSteps)

\* a request starts on an acyclic graph that contains its target
AcyclicWithTarget ==
    /\ eta_pc = "idle"
    /\ eta_req # Nothing
    /\ eta_req[1].issue_key \in DOMAIN EtaNodes
    /\ \A k \in DOMAIN EtaNodes : ~OnCycle(k)

\* the loop of the request has ended with the target scheduled, and the result built
\* from that state reports it
TargetScheduled ==
    /\ eta_pc \in {"loop", "returned"}
    /\ pess_st # Nothing
    /\ pess_st[1].ready = {}
    /\ LET final  == pess_st[1]
           target == eta_req[1].issue_key
           r      == EtaReport(eta_graph[1], target, final)
           ps     == r.pessimistic_schedule
       IN  /\ target \in DOMAIN final.EF2
           /\ r.error = None
           /\ r.pessimistic_days = Max2(final.EF2[target], r.optimistic_days)
           /\ [i \in 1..Len(ps) |-> ps[i].id] = final.sched_order
           /\ \A i, j \in 1..Len(ps) : ps[i].id = ps[j].id => i = j
           /\ \E i \in 1..Len(ps) : ps[i].id = target /\ ps[i].eft = final.EF2[target]
           /\ eta_pc = "returned" => eta = Some(r)

\* C25: a request that starts on an acyclic graph containing its target leaves the
\* loop `while ready` after finitely many turns with the target scheduled: its
\* finish time is defined, pessimistic_days of the result is that finish (or
\* optimistic_days if that is greater), and no issue occurs twice in
\* pessimistic_schedule.
C25_PessimisticLiveness == AcyclicWithTarget ~> TargetScheduled

\* the loop has ended after three turns, the target having been placed in the first,
\* and the result is returned
C25_Witness ==
    /\ eta_pc = "returned"
    /\ TargetScheduled
    /\ Len(eta[1].pessimistic_schedule) = 3
    /\ eta[1].pessimistic_schedule[1].id = eta_req[1].issue_key

----------------------------------------------------------------------------
(* Claims on the latest times of the RCPSP result *)

\* C26: in every result of _run_pert_rcpsp_calc, the windows [LS, LF] of two tasks of
\* one assignee (tasks without assignee count as one assignee) share at most an
\* endpoint, every task has LS = LF - duration, and every LF <= project_duration.
C26_BackwardWindows ==
    RcpspDone =>
        LET ts == cpa_rcpsp.tasks
        IN  /\ \A i \in 1..Len(ts) :
                  /\ ts[i].LS = ts[i].LF - ts[i].duration
                  /\ ts[i].LF <= cpa_rcpsp.project_duration
            /\ \A i, j \in 1..Len(ts) :
                  (i # j /\ ts[i].assignee = ts[j].assignee) =>
                      ts[i].LF <= ts[j].LS \/ ts[j].LF <= ts[i].LS

\* a result in which two one-day tasks of one assignee without dependencies between
\* them have different windows, the later one ending with the project
C26_Witness ==
    /\ RcpspDone
    /\ \E i, j \in 1..Len(cpa_rcpsp.tasks) :
          LET a == cpa_rcpsp.tasks[i]
              b == cpa_rcpsp.tasks[j]
          IN  /\ i # j
              /\ a.assignee = b.assignee
              /\ a.duration = 1 /\ b.duration = 1
              /\ a.id \notin AncestorsOf(project, b.id)
              /\ b.id \notin AncestorsOf(project, a.id)
              /\ a.LF = b.LS
              /\ b.LF = cpa_rcpsp.project_duration

----------------------------------------------------------------------------
(* Claims on the ancestors of the target *)

\* C27: for a target of the sprint, _compute_ancestors_of_target returns exactly the
\* issues reachable from the target by one or more dependency entries; when the
\* graph is acyclic the target is not among them and pessimistic_blockers of the
\* result is that set, sorted; the subgraph of GET /jira/issue-eta-graph has exactly
\* the target and these issues as nodes, and every dependency of a node of the
\* subgraph is a node of the subgraph.
C27_AncestorExtraction ==
    (eta_req # Nothing /\ eta_req[1].issue_key \in DOMAIN EtaNodes) =>
        LET target == eta_req[1].issue_key
            anc    == EtaAncestors(target)
        IN  /\ (answer # Nothing \/ endpoint # Nothing) =>
                  compute_ancestors_of_target(EtaNodes, target) = anc
            /\ (answer # Nothing /\ answer[1].error = None) =>
                  /\ \A k \in DOMAIN EtaNodes : ~OnCycle(k)
                  /\ target \notin anc
                  /\ answer[1].pessimistic_blockers = SortedStr(anc)
            /\ (endpoint # Nothing /\ endpoint[1].status = 200) =>
                  LET sub == endpoint[1].nodes
                  IN  /\ DOMAIN sub = {target} \cup anc
                      /\ \A k \in DOMAIN sub :
                            /\ SeqToSet(sub[k].dependencies) \subseteq DOMAIN sub
                            /\ sub[k].dependencies = EtaNodes[k].dependencies
                      /\ (\A k \in DOMAIN EtaNodes : ~OnCycle(k)) =>
                            endpoint[1].pessimistic_blockers = SortedStr(anc)

\* both callers have answered for a target that depends on a second issue, which
\* depends on a third one
C27_Witness ==
    /\ answer # Nothing
    /\ endpoint # Nothing
    /\ endpoint[1].status = 200
    /\ answer[1].error = None
    /\ LET target == eta_req[1].issue_key
       IN  /\ Len(EtaNodes[target].dependencies) = 1
           /\ Len(answer[1].pessimistic_blockers) = 2
           /\ Cardinality(DOMAIN endpoint[1].nodes) = 3

----------------------------------------------------------------------------
(* The cache of sprint issues: tools/cpa/engine/jira.py *)

ProjectKeys == {"P", "Q"}

\* the issue lists Jira can answer with
SprintVersions ==
    { << [key |-> <<"T", "-", "2">>] >>,
      << [key |-> <<"T", "-", "2">>], [key |-> <<"V">>] >> }

\* the ttl_seconds arguments drawn
Ttls == {0, 2}

MaxClock == 3

MaxCalls == 3

\* the outcome of one call: what it returned or that it raised, and whether
\* _jira_search_current_sprint_issues was called
CacheOutcome(project_key, ttl_seconds, fetched, raised, result) ==
    [project_key |-> project_key, ttl_seconds |-> ttl_seconds, fetched |-> fetched,
     raised |-> raised, issues |-> result]

\* a faulty _cached_current_sprint_issues: an entry of age ttl_seconds is still served
cached_current_sprint_issues_inclusive(cache, now, up, project_key, ttl_seconds) ==
    IF project_key \in DOMAIN cache /\ (now - cache[project_key].ts) <= ttl_seconds
    THEN [cache |-> cache,
          ret |-> CacheOutcome(project_key, ttl_seconds, FALSE, FALSE,
                               Some(cache[project_key].issues))]
    ELSE IF up[project_key] = Nothing
         THEN [cache |-> cache,
               ret |-> CacheOutcome(project_key, ttl_seconds, TRUE, TRUE, Nothing)]
         ELSE [cache |-> DictSet(cache, project_key,
                                 [ts |-> now, issues |-> up[project_key][1]]),
               ret |-> CacheOutcome(project_key, ttl_seconds, TRUE, FALSE, up[project_key])]

\* _cached_current_sprint_issues(project_key, ttl_seconds) on the cache, at time now,
\* with up[project_key] what the upstream search answers (Nothing: it raises): the
\* cache after the call and the outcome
cached_current_sprint_issues(cache, now, up, project_key, ttl_seconds) ==
    IF project_key \in DOMAIN cache /\ (now - cache[project_key].ts) < ttl_seconds
    THEN [cache |-> cache,
          ret |-> CacheOutcome(project_key, ttl_seconds, FALSE, FALSE,
                               Some(cache[project_key].issues))]
    ELSE IF up[project_key] = Nothing
         THEN [cache |-> cache,
               ret |-> CacheOutcome(project_key, ttl_seconds, TRUE, TRUE, Nothing)]
         ELSE [cache |-> DictSet(cache, project_key,
                                 [ts |-> now, issues |-> up[project_key][1]]),
               ret |-> CacheOutcome(project_key, ttl_seconds, TRUE, FALSE, up[project_key])]

\* the process has started: the cache is empty; Jira holds some sprint per project
\* or cannot be reached
InitJira ==
    /\ jira_cache = <<>>
    /\ now_ts = 0
    /\ jira_up \in [ProjectKeys -> {Nothing} \cup {Some(v) : v \in SprintVersions}]
    /\ cache_ret = Nothing
    /\ calls = 0
    /\ issues = <<>>
    /\ cal = Nothing
    /\ today = 0
    /\ timeline = Nothing
    /\ dep_schedule = Nothing
    /\ cal_pc = "idle"
    /\ IdleCpa
    /\ IdleAdv
    /\ IdleEta
    /\ IdleSvc
    /\ IdleSteps
    /\ IdleRm

\* a second passes
ClockTick ==
    /\ now_ts < MaxClock
    /\ now_ts' = now_ts + 1
    /\ UNCHANGED <<rm_vars, jira_cache, jira_up, cache_ret, calls, step_vars, cpa_vars, adv_vars,
                   cal_vars, eta_vars, svc_vars>>

\* the clock of the host is set back by a second
ClockSetBack ==
    /\ now_ts > 0
    /\ calls > 0
    /\ now_ts' = now_ts - 1
    /\ UNCHANGED <<rm_vars, jira_cache, jira_up, cache_ret, calls, step_vars, cpa_vars, adv_vars,
                   cal_vars, eta_vars, svc_vars>>

\* the sprint of a project changes in Jira, or Jira goes down or comes back
JiraChanges ==
    /\ calls > 0
    /\ \E k \in ProjectKeys : \E v \in {Nothing} \cup {Some(x) : x \in SprintVersions} :
          /\ v # jira_up[k]
          /\ jira_up' = [jira_up EXCEPT ![k] = v]
    /\ UNCHANGED <<rm_vars, jira_cache, now_ts, cache_ret, calls, step_vars, cpa_vars, adv_vars,
                   cal_vars, eta_vars, svc_vars>>

\* one call _cached_current_sprint_issues(project_key, ttl_seconds)
CachedCall ==
    /\ calls < MaxCalls
    /\ \E project_key \in ProjectKeys : \E ttl_seconds \in Ttls :
          LET r == cached_current_sprint_issues(jira_cache, now_ts, jira_up, project_key,
                                                ttl_seconds)
          IN  /\ jira_cache' = r.cache
              /\ cache_ret' = Some(r.ret)
    /\ calls' = calls + 1
    /\ UNCHANGED <<rm_vars, now_ts, jira_up, step_vars, cpa_vars, adv_vars, cal_vars, eta_vars,
                   svc_vars>>

NextJira == ClockTick \/ ClockSetBack \/ JiraChanges \/ CachedCall

SpecJira == InitJira /\ [][NextJira]_vars

\* the entry of project k exists and is younger than ttl
FreshEntry(k, ttl) == k \in DOMAIN jira_cache /\ (now_ts - jira_cache[k].ts) < ttl

\* the call of this step
ThisCall == cache_ret'[1]

\* C28: in every call of _cached_current_sprint_issues, the stored list is returned
\* and the upstream search is not called if and only if the project has an entry
\* whose age is strictly less than ttl_seconds, and the cache is then left as it is;
\* otherwise the search is called and, when it answers, its list is returned and
\* stored under the project with the current timestamp, the other entries staying
\* as they are; when it raises, the call raises and the cache is left as it is.
C28_TtlCache ==
    [][ (calls' = calls + 1) =>
          LET k   == ThisCall.project_key
              ttl == ThisCall.ttl_seconds
          IN  /\ FreshEntry(k, ttl) <=> ~ThisCall.fetched
              /\ FreshEntry(k, ttl) =>
                    /\ ~ThisCall.raised
                    /\ ThisCall.issues = Some(jira_cache[k].issues)
                    /\ jira_cache' = jira_cache
              /\ (~FreshEntry(k, ttl) /\ jira_up[k] # Nothing) =>
                    /\ ~ThisCall.raised
                    /\ ThisCall.issues = jira_up[k]
                    /\ DOMAIN jira_cache' = DOMAIN jira_cache \cup {k}
                    /\ jira_cache'[k] = [ts |-> now_ts, issues |-> jira_up[k][1]]
                    /\ \A x \in DOMAIN jira_cache \ {k} : jira_cache'[x] = jira_cache[x]
              /\ (~FreshEntry(k, ttl) /\ jira_up[k] = Nothing) =>
                    /\ ThisCall.raised
                    /\ jira_cache' = jira_cache
      ]_vars

\* the third call was answered from an entry stored one second before, although
\* Jira holds another list by now; the entry of the other project is two seconds old
C28_Witness ==
    /\ calls = 3
    /\ cache_ret[1].fetched = FALSE
    /\ DOMAIN jira_cache = ProjectKeys
    /\ LET k == cache_ret[1].project_key
       IN  /\ now_ts - jira_cache[k].ts = 1
           /\ jira_up[k] # Some(jira_cache[k].issues)
           /\ cache_ret[1].issues = Some(jira_cache[k].issues)
           /\ \E x \in ProjectKeys \ {k} : now_ts - jira_cache[x].ts = 2

----------------------------------------------------------------------------
(* Claims on what a request leaves behind *)

\* C29: no step of an ETA request changes the cached issue records; capacity
\* scaling changes the graph of the request only: every request starts from the
\* graph of the records with their unscaled durations, and a request without
\* capacities that follows a request with capacities returns a result of the
\* estimator on the unscaled records.
C29_NoStateLeak ==
    [][ /\ issues' = issues
        /\ eta_pc' = "built" => eta_graph'[1] = current_sprint_dependency_graph(issues)
        /\ (eta_pc = "built" /\ eta_pc' = "scaled") =>
              /\ eta_graph'[1].order = eta_graph[1].order
              /\ \A k \in DOMAIN eta_graph[1].nodes :
                    /\ eta_graph'[1].nodes[k].duration_days >= eta_graph[1].nodes[k].duration_days
                    /\ eta_graph'[1].nodes[k].dependencies = eta_graph[1].nodes[k].dependencies
        /\ (eta_prev' # Nothing /\ eta_pc # "returned" /\ eta_pc' = "returned") =>
              eta'[1] \in compute_eta_range_for_issue_current_sprint(
                              issues, eta_req[1].issue_key, Nothing)
      ]_vars

\* a request with capacities has returned more optimistic days than the request
\* without capacities that followed it
C29_Witness ==
    /\ eta_pc = "returned"
    /\ eta_prev # Nothing
    /\ eta_prev[1].error = None
    /\ eta[1].error = None
    /\ eta_prev[1].optimistic_days > eta[1].optimistic_days

\* C30: in every result of _run_pert_rcpsp_calc on an acyclic project, every task
\* has LS >= ES and LF >= EF, so that slack = max(0, LS - ES) is LS - ES.
C30_LatestNotBeforeEarliest ==
    (RcpspDone /\ Acyclic(project)) =>
        \A i \in 1..Len(cpa_rcpsp.tasks) :
            LET t == cpa_rcpsp.tasks[i]
            IN  /\ t.LS >= t.ES
                /\ t.LF >= t.EF
                /\ t.slack = t.LS - t.ES

----------------------------------------------------------------------------
(* Claims on the two ETA schedules and their reported days *)

\* the finish of the target in the optimistic schedule of a result
OptimisticFinish(r) ==
    LET os == r.optimistic_schedule
    IN  os[CHOOSE i \in 1..Len(os) : os[i].id = r.issue].eft

\* C31: in every successful result of the estimator, the finish of the target in
\* the optimistic schedule is at most its finish in the pessimistic schedule, so
\* that pessimistic_days is that pessimistic finish, unchanged by the clamp.
C31_OptimisticLowerBound ==
    (eta # Nothing /\ eta[1].error = None) =>
        /\ OptimisticFinish(eta[1]) <= PessimisticFinish(eta[1])
        /\ eta[1].pessimistic_days = PessimisticFinish(eta[1])

\* C32: in every successful result of the estimator, optimistic_days is the eft of
\* the target's entry in optimistic_schedule and pessimistic_days is the eft of the
\* target's entry in pessimistic_schedule.
C32_DaysAgreeWithSchedules ==
    (eta # Nothing /\ eta[1].error = None) =>
        /\ \E i \in 1..Len(eta[1].optimistic_schedule) :
              /\ eta[1].optimistic_schedule[i].id = eta[1].issue
              /\ eta[1].optimistic_schedule[i].eft = eta[1].optimistic_days
        /\ \E i \in 1..Len(eta[1].pessimistic_schedule) :
              /\ eta[1].pessimistic_schedule[i].id = eta[1].issue
              /\ eta[1].pessimistic_schedule[i].eft = eta[1].pessimistic_days

----------------------------------------------------------------------------
(* Claims on the calendar schedulers: precedence, removal, single-issue estimate *)

\* C33: in a schedule of schedule_current_sprint_with_dependencies on an acyclic
\* sprint, every issue starts on a date strictly later than the (inclusive) end
\* date of each of its dependencies.
C33_CalendarPrecedence ==
    (dep_schedule # Nothing /\ dep_schedule[1].error = None /\ ~SprintCyclic) =>
        LET per_issue == dep_schedule[1].per_issue_schedule
        IN  \A k \in DOMAIN per_issue :
               \A i \in 1..Len(per_issue[k].dependencies) :
                   DateOf(per_issue[k].start) > DateOf(per_issue[per_issue[k].dependencies[i]].end)

\* the entries of a schedule respect the dependencies and serve each assignee one
\* task at a time
FeasibleSchedule(sched) ==
    /\ \A i, j \in 1..Len(sched) :
          sched[j].id \in SeqToSet(sched[i].deps) => sched[i].est >= sched[j].eft
    /\ \A i, j \in 1..Len(sched) :
          (i # j /\ sched[i].assignee = sched[j].assignee) =>
              sched[i].eft <= sched[j].est \/ sched[j].eft <= sched[i].est

\* C34: in the optimistic and in the pessimistic schedule of every successful
\* result of the estimator, every task starts no earlier than the finish of each of
\* its dependencies, and the intervals [est, eft) of two tasks of one assignee do
\* not overlap.
C34_SchedulesFeasible ==
    (eta # Nothing /\ eta[1].error = None) =>
        /\ FeasibleSchedule(eta[1].optimistic_schedule)
        /\ FeasibleSchedule(eta[1].pessimistic_schedule)

\* a successful result on three issues of one assignee, one depending on another,
\* whose two schedules differ
C34_Witness ==
    /\ eta # Nothing
    /\ eta[1].error = None
    /\ Len(eta[1].optimistic_schedule) = 3
    /\ \A i \in 1..3 : eta[1].optimistic_schedule[i].assignee = "X"
    /\ \E i \in 1..3 : eta[1].optimistic_schedule[i].deps # <<>>
    /\ eta[1].optimistic_schedule # eta[1].pessimistic_schedule

----------------------------------------------------------------------------
(* Removing one issue from the sprint: sprint_completion_if_issue_removed
   (backend/tools/cpa/engine/sprint_timeline.py), followed from its baseline to its
   second fetch of the sprint, with the cache of jira.py in between *)

\* ttl_seconds of _cached_current_sprint_issues when the caller gives none
DefaultTtl == 60

\* the clock of the removal scenario stops here
MaxRemovalClock == 60

\* for iss in issues: if key == removed_issue_key: continue
WithoutIssue(iss, removed_issue_key) ==
    SelectSeq(iss, LAMBDA i : i.key # removed_issue_key)

\* a faulty difference: after minus before
DeltaDaysReversed(bd, ad) == ad - bd

\* delta_days = (bd - ad).days
DeltaDays(bd, ad) == bd - ad

\* the part of sprint_completion_if_issue_removed after its baseline: the issues are
\* fetched again as iss, the removed issue is skipped, the others are laid out as in
\* current_sprint_cpa_timeline from the base date of all issues, and delta_days is
\* the difference of the two overall completion dates
sprint_completion_if_issue_removed(baseline, iss, removed_issue_key, params, now) ==
    LET base_start == BaseStart(iss, params.start_on, now)
        wd         == WorkingDaysSet(params.working_days, {0, 1, 2, 3, 4})
        global     == to_date_set(params.global_holidays)
        items      == TimelineItems(WithoutIssue(iss, removed_issue_key))
        users      == ItemUsers(items, 1, <<>>)
        schedules  == [u \in SeqToSet(users) |->
                          LayOut(SortedQueue(items, u), 1, base_start, u, wd,
                                 to_date_set(HolidaysOfUser(params.holidays_by_user, u))
                                     \cup global,
                                 <<>>)]
        before_date == baseline.overall_completion_date
        after_date  == Isoformat(OverallEnd(schedules, users, base_start))
        bd == parse_iso_date(Some(before_date))
        ad == parse_iso_date(Some(after_date))
    IN  [removed_issue |-> removed_issue_key,
         sprint_start |-> Isoformat(base_start),
         before_overall_completion_date |-> before_date,
         after_overall_completion_date |-> after_date,
         delta_days |-> IF bd # Nothing /\ ad # Nothing THEN Some(DeltaDays(bd[1], ad[1]))
                        ELSE Nothing]

\* the sprints Jira can hold: issues in key order, each with or without an assignee
\* and story points
RemovalSprints(sprint_start) ==
    {SprintOf(SortedStr(S), asg, sp, NoLinks(S), sprint_start) :
        <<S, asg, sp>> \in {t \in UNION {{<<S, a, p>> : a \in [S -> Assignees],
                                                         p \in [S -> StoryPoints]} :
                                           S \in SUBSET Ids} : TRUE}}

\* the process has started: the cache is empty, Jira holds a sprint of project P, and
\* one request sprint_completion_if_issue_removed("P", removed_issue_key, ...) arrives
InitRemoval ==
    /\ \E e \in QueryEnvs : \E v \in RemovalSprints(e.sprint_start) :
          /\ jira_up = [k \in ProjectKeys |-> IF k = "P" THEN Some(v) ELSE Nothing]
          /\ cal = Some(e.cal)
          /\ today = e.today
    /\ query_key \in {Some(k) : k \in Ids}
    /\ jira_cache = <<>>
    /\ now_ts = 0
    /\ cache_ret = Nothing
    /\ calls = 0
    /\ issues = <<>>
    /\ timeline = Nothing
    /\ dep_schedule = Nothing
    /\ cal_pc = "loaded"
    /\ expected = Nothing
    /\ estimate = Nothing
    /\ answer = Nothing
    /\ endpoint = Nothing
    /\ IdleCpa
    /\ IdleAdv
    /\ IdleEta
    /\ IdleSteps
    /\ IdleRm

\* half the lifetime of a cache entry passes
TimePasses ==
    /\ now_ts + DefaultTtl \div 2 <= MaxRemovalClock
    /\ now_ts' = now_ts + DefaultTtl \div 2
    /\ UNCHANGED <<jira_cache, jira_up, cache_ret, calls, rm_vars, step_vars, cpa_vars,
                   adv_vars, cal_vars, eta_vars, svc_vars>>

\* the sprint cached for P is edited in Jira: an issue leaves it, or an issue joins it
SprintEdited ==
    /\ "P" \in DOMAIN jira_cache
    /\ jira_cache["P"].issues = jira_up["P"][1]
    /\ LET cur  == jira_up["P"][1]
           keys == {cur[i].key : i \in 1..Len(cur)}
           sprint_start == IF cur = <<>> THEN Nothing ELSE cur[1].fields.sprint_start
       IN  \/ \E k \in keys :
                jira_up' = [jira_up EXCEPT !["P"] = Some(WithoutIssue(cur, k))]
           \/ /\ cur # <<>>
              /\ \E k \in Ids \ keys :
                   jira_up' = [jira_up EXCEPT !["P"] =
                       Some(Append(cur,
                                   [key |-> k,
                                    fields |-> [assignee |-> "X", story_points |-> Some(2),
                                                issuelinks |-> <<>>,
                                                sprint_start |-> sprint_start]]))]
    /\ UNCHANGED <<jira_cache, now_ts, cache_ret, calls, rm_vars, step_vars, cpa_vars,
                   adv_vars, cal_vars, eta_vars, svc_vars>>

\* the calls of the cache made by others than the removal request are bounded
MaxOtherCalls == 1

\* the calls of the cache the removal request has made
OwnCalls == IF cal_pc = "loaded" THEN 0 ELSE IF cal_pc = "baseline" THEN 1 ELSE 2

\* another request served by the process calls _cached_current_sprint_issues("P")
OtherRequest ==
    /\ calls - OwnCalls < MaxOtherCalls
    /\ LET r == cached_current_sprint_issues(jira_cache, now_ts, jira_up, "P", DefaultTtl)
       IN  /\ jira_cache' = r.cache
           /\ cache_ret' = Some(r.ret)
    /\ calls' = calls + 1
    /\ UNCHANGED <<now_ts, jira_up, rm_vars, step_vars, cpa_vars, adv_vars, cal_vars,
                   eta_vars, svc_vars>>

\* baseline = current_sprint_cpa_timeline(project_key, ...), which fetches the issues
\* through the cache
RemovalBaseline ==
    /\ cal_pc = "loaded"
    /\ Returns(cal[1].working_days, {0, 1, 2, 3, 4})
    /\ LET r == cached_current_sprint_issues(jira_cache, now_ts, jira_up, "P", DefaultTtl)
       IN  /\ jira_cache' = r.cache
           /\ cache_ret' = Some(r.ret)
           /\ IF r.ret.raised
              THEN /\ cal_pc' = "raised"
                   /\ UNCHANGED <<issues, timeline>>
              ELSE /\ cal_pc' = "baseline"
                   /\ issues' = r.ret.issues[1]
                   /\ timeline' = Some(current_sprint_cpa_timeline(r.ret.issues[1], cal[1],
                                                                   today))
    /\ calls' = calls + 1
    /\ UNCHANGED <<cal, today, dep_schedule, now_ts, jira_up, rm_vars, step_vars, cpa_vars,
                   adv_vars, eta_vars, svc_vars>>

\* issues = _cached_current_sprint_issues(project_key) and the rest of the function
RemovalAfter ==
    /\ cal_pc = "baseline"
    /\ LET r == cached_current_sprint_issues(jira_cache, now_ts, jira_up, "P", DefaultTtl)
       IN  /\ jira_cache' = r.cache
           /\ cache_ret' = Some(r.ret)
           /\ IF r.ret.raised
              THEN /\ cal_pc' = "raised"
                   /\ UNCHANGED rm_vars
              ELSE /\ cal_pc' = "done"
                   /\ rm_issues' = r.ret.issues
                   /\ removal' = Some(sprint_completion_if_issue_removed(
                                          timeline[1], r.ret.issues[1], query_key[1],
                                          cal[1], today))
    /\ calls' = calls + 1
    /\ UNCHANGED <<issues, cal, today, timeline, dep_schedule, now_ts, jira_up, step_vars,
                   cpa_vars, adv_vars, eta_vars, svc_vars>>

NextRemoval == TimePasses \/ SprintEdited \/ OtherRequest \/ RemovalBaseline \/ RemovalAfter

SpecRemoval == InitRemoval /\ [][NextRemoval]_vars

\* the keys of a list of issues
KeysOf(iss) == {iss[i].key : i \in 1..Len(iss)}

\* the request has returned, and its two fetches returned the same list of issues
SameSnapshot == cal_pc = "done" /\ rm_issues = Some(issues)

C35_WitnessAbsent ==
    /\ SameSnapshot
    /\ issues # <<>>
    /\ query_key[1] \notin KeysOf(issues)
    /\ removal[1].delta_days = Some(0)


\* C37: the issues the second fetch of one request sprint_completion_if_issue_removed
\* returns are the issues its baseline was computed from, whatever happens to the
\* cache entry between the two fetches, so that before and after are completion
\* dates of one snapshot.
C37_SnapshotConsistency ==
    cal_pc = "done" => rm_issues = Some(issues)


----------------------------------------------------------------------------
(* Claim on the finish times of the CPA results *)

\* C36: in every result of run_cpa_calc every task has EF = ES + duration, and in
\* every result of _run_pert_rcpsp_calc every task has EF = ES + duration and
\* EF_plain = ES_plain + duration, on cyclic projects (degraded mode) as on
\* acyclic ones.
C36_FinishIsStartPlusDuration ==
    /\ PlainDone =>
          \A i \in 1..Len(cpa_plain.tasks) :
              cpa_plain.tasks[i].EF = cpa_plain.tasks[i].ES + cpa_plain.tasks[i].duration
    /\ RcpspDone =>
          \A i \in 1..Len(cpa_rcpsp.tasks) :
              /\ cpa_rcpsp.tasks[i].EF = cpa_rcpsp.tasks[i].ES + cpa_rcpsp.tasks[i].duration
              /\ cpa_rcpsp.tasks[i].EF_plain =
                     cpa_rcpsp.tasks[i].ES_plain + cpa_rcpsp.tasks[i].duration


----------------------------------------------------------------------------
(* Claim on the single-issue estimate against the full timeline *)

\* C38: for every issue of the sprint, estimate_issue_completion_in_current_sprint
\* returns as estimated_completion_date the per_issue_completion entry that
\* current_sprint_cpa_timeline computes for the issue on the same issues with the
\* same parameters.
C38_EstimateAgreesWithTimeline ==
    (estimate # Nothing /\ query_key[1] \in KeysOf(issues)) =>
        estimate[1].estimated_completion_date =
            Some(current_sprint_cpa_timeline(issues, cal[1], today)
                     .per_issue_completion[query_key[1]])

====
